---- MODULE Spec2Model ----
(***************************************************************************)
(* Model of the medinn marketplace backend: accounts (register, verify,    *)
(* login, soft delete), products (create, update, soft delete, images),    *)
(* carts (add, update, remove, clear), addresses, reviews and the audit    *)
(* logs.                                                                   *)
(*                                                                         *)
(* The variables are the database tables.  A request handler is a function *)
(* of the database and the request: it yields the HTTP status and the rows *)
(* of the tables it writes (operator <View>_<method>).  The action of the  *)
(* same request stores those rows.  A handler runs as one atomic step.     *)
(***************************************************************************)
EXTENDS Integers, Sequences, FiniteSets, TLC

(* ------------------------------ bounds --------------------------------- *)
MaxStock == 2
MaxPrice == 2
MaxItemId == 3
MaxCartLog == 3
MaxProdLog == 5
MaxAcctLog == 4
MaxProfLog == 5
MaxImageId == 3
MaxUpload == 2
MaxAddrId == 3
MaxOverKeep == 2
MaxReviewId == 2

(* ------------------------- program constants --------------------------- *)
\* a limit one unit too high
MAX_QUANTITY_PER_ITEM_off_by_one == 99 + 1

MAX_QUANTITY_PER_ITEM == 99
KEEP_LAST == 100
MAX_IMAGES_PER_PRODUCT == 10
MAX_ADDRESSES == 5
LOW_STOCK_THRESHOLD == 10

Users == {"u1", "u2"}
ProductIds == <<"p1", "p2">>
Products == {ProductIds[k] : k \in DOMAIN ProductIds}
Passwords == {"pw1", "pw2"}
Requests == {"r1", "r2"}
AddressTypes == {"shipping", "billing"}
Names == {"Ada Obi", "Bola Ade"}
StoreNames == {"Ada Obi's Store", "Best Shop"}
NULL == "NULL"
NOW == "now"
IP == "ip"

VARIABLES
    users,        \* accounts_user rows, keyed by e-mail
    products,     \* products_product rows
    carts,        \* carts_cart rows (one per user at most)
    items,        \* carts_cartitem rows
    nextItemId,   \* next primary key of carts_cartitem
    images,       \* products_productimage rows
    nextImageId,  \* next primary key of products_productimage
    addresses,    \* profiles_address rows
    nextAddrId,   \* next primary key of profiles_address
    reviews,      \* products_productreview rows
    nextReviewId, \* next primary key of products_productreview
    acctAudit,    \* accounts_auditlog rows, oldest first
    cartAudit,    \* carts_cartauditlog rows, oldest first
    prodAudit,    \* products_productauditlog rows, oldest first
    profAudit,    \* profiles_profileauditlog rows, oldest first
    profiles,     \* users that have a profiles_profile row
    notificationPreferences,  \* users that have a notification row
    sellerProfiles,           \* profiles_sellerprofile rows
    adding,       \* AddToCartView.post requests in flight: position and locals
    locks,        \* rows locked by an open transaction, with their holder
    defaulting    \* address requests in flight: position and locals

vars == <<users, products, carts, items, nextItemId, images, nextImageId,
          addresses, nextAddrId, reviews, nextReviewId, acctAudit, cartAudit,
          prodAudit, profAudit, profiles, notificationPreferences,
          sellerProfiles, adding, locks, defaulting>>

profileTables == <<profiles, notificationPreferences, sellerProfiles>>

\* the requests in flight; a handler that runs as one step leaves them alone
inflight == <<adding, locks, defaulting>>

\* the cart item a request has not read yet
NoItem ==
    [id |-> 0, cart |-> NULL, product |-> NULL, quantity |-> 0,
     price_at_addition |-> 0]

\* no AddToCartView.post request is running
NoAdd ==
    [pc |-> "idle", user |-> NULL, product |-> NULL, quantity |-> 0,
     cart_item |-> NoItem, status |-> 0]

\* the address a request has not read or built yet
NoAddress ==
    [id |-> 0, user |-> NULL, address_type |-> NULL, is_default |-> FALSE]

\* no address request is running
NoDefault ==
    [pc |-> "idle", view |-> NULL, user |-> NULL, address |-> NoAddress,
     status |-> 0]

(* ------------------------------ helpers -------------------------------- *)
NoUser ==
    [exists |-> FALSE, is_active |-> FALSE, is_deleted |-> FALSE,
     email_verified |-> FALSE, is_seller |-> FALSE, password |-> NULL,
     deleted_at |-> NULL, full_name |-> NULL]

NoProduct ==
    [exists |-> FALSE, seller |-> NULL, price |-> 0, stock |-> 0,
     is_active |-> FALSE, is_deleted |-> FALSE, deleted_at |-> NULL]

\* request.user of an authenticated request: the token's user must exist and
\* be active
Authenticated(u) == users[u].exists /\ users[u].is_active

Success(status) == status >= 200 /\ status < 300

Init ==
    /\ users = [u \in Users |-> NoUser]
    /\ products = [p \in Products |-> NoProduct]
    /\ carts = {}
    /\ items = {}
    /\ nextItemId = 1
    /\ images = {}
    /\ nextImageId = 1
    /\ addresses = {}
    /\ nextAddrId = 1
    /\ reviews = {}
    /\ nextReviewId = 1
    /\ adding = [r \in Requests |-> NoAdd]
    /\ locks = {}
    /\ defaulting = [r \in Requests |-> NoDefault]
    /\ acctAudit = <<>>
    /\ cartAudit = <<>>
    /\ prodAudit = <<>>
    /\ profAudit = <<>>
    /\ profiles = {}
    /\ notificationPreferences = {}
    /\ sellerProfiles = {}

(* ----------------------------- accounts -------------------------------- *)
log_profile_event(log, user, event_type) ==
    Append(log, [user |-> user, event_type |-> event_type])

\* AuditLog.objects.create: the new row takes the next primary key, which is
\* one more than the newest row's since the newest row is never deleted
log_audit_event(log, event_type, user) ==
    Append(log, [id |-> IF log = <<>> THEN 1 ELSE log[Len(log)].id + 1,
                 user |-> user, event_type |-> event_type])

\* the rows of user u, oldest first
FilterUser(log, u) == SelectSeq(log, LAMBDA e : e.user = u)

\* position in log of the k-th oldest row of user u
RowOfUser(log, u, k) ==
    CHOOSE m \in DOMAIN log :
        log[m].user = u /\ Len(FilterUser(SubSeq(log, 1, m), u)) = k

\* log without the k oldest rows of user u
DropFirstOfUser(log, u, k) ==
    LET cut == RowOfUser(log, u, k)
    IN SelectSeq(SubSeq(log, 1, cut), LAMBDA e : e.user # u)
         \o SubSeq(log, cut + 1, Len(log))

\* cleanup_old_audit_logs with the filter on the user left out
cleanup_old_audit_logs_all_users(log, u) ==
    IF Len(log) > KEEP_LAST
    THEN SubSeq(log, Len(log) - KEEP_LAST + 1, Len(log)) ELSE log

cleanup_old_audit_logs(log, u) ==
    LET n == Len(FilterUser(log, u))
    IN IF n > KEEP_LAST THEN DropFirstOfUser(log, u, n - KEEP_LAST) ELSE log

\* User.soft_delete replaced by Model.delete
User_hard_delete(row) == NoUser

User_soft_delete(row) ==
    [row EXCEPT !.is_deleted = TRUE, !.is_active = FALSE, !.deleted_at = NOW]

\* django.utils.text.slugify on the store names in use
slugify(s) ==
    CASE s = "Ada Obi's Store" -> "ada-obis-store"
      [] s = "Bola Ade's Store" -> "bola-ades-store"
      [] s = "Best Shop" -> "best-shop"

User_get_full_name(row) == row.full_name

\* the name a user registers under where names play no part
OwnName(u) == IF u = "u1" THEN "Ada Obi" ELSE "Bola Ade"

\* SellerProfile.save of a row without slug: the first of slugify(name),
\* slugify(name)-1, slugify(name)-2, ... that no row has
SellerProfile_slug(sps, store_name) ==
    LET base_slug == slugify(store_name)
        slug(n) == IF n = 0 THEN base_slug
                   ELSE base_slug \o "-" \o ToString(n)
        taken(n) == \E sp \in sps : sp.store_slug = slug(n)
        counter == CHOOSE n \in 0..Cardinality(sps) :
                       ~taken(n) /\ \A k \in 0..(n - 1) : taken(k)
    IN slug(counter)

\* SellerProfile.objects.create(user=u, store_name=store_name): the unique
\* constraints on user and store_name raise IntegrityError
SellerProfile_create(sps, u, store_name) ==
    IF \E sp \in sps : sp.user = u \/ sp.store_name = store_name
    THEN [raised |-> TRUE, sellerProfiles |-> sps]
    ELSE [raised |-> FALSE,
          sellerProfiles |->
            sps \cup {[user |-> u, store_name |-> store_name,
                       store_slug |-> SellerProfile_slug(sps, store_name)]}]

\* post_save receiver of User for created = True.  Each create commits on
\* its own, so the rows written before an IntegrityError stay
create_user_profile(u, instance) ==
    LET sp == IF instance.is_seller
              THEN SellerProfile_create(sellerProfiles, u,
                       User_get_full_name(instance) \o "'s Store")
              ELSE [raised |-> FALSE, sellerProfiles |-> sellerProfiles]
    IN [raised |-> sp.raised,
        profiles |-> profiles \cup {u},
        notificationPreferences |-> notificationPreferences \cup {u},
        sellerProfiles |-> sp.sellerProfiles,
        profAudit |-> IF sp.raised THEN profAudit
                      ELSE log_profile_event(profAudit, u, "profile_created")]

\* post_save receiver of User for created = False
save_user_profile(u, instance) ==
    LET missing == instance.is_seller
                   /\ ~\E sp \in sellerProfiles : sp.user = u
        sp == IF missing
              THEN SellerProfile_create(sellerProfiles, u,
                       User_get_full_name(instance) \o "'s Store")
              ELSE [raised |-> FALSE, sellerProfiles |-> sellerProfiles]
    IN [raised |-> sp.raised,
        profiles |-> profiles \cup {u},
        notificationPreferences |-> notificationPreferences \cup {u},
        sellerProfiles |-> sp.sellerProfiles,
        profAudit |-> IF missing /\ ~sp.raised
                      THEN log_profile_event(profAudit, u,
                                             "seller_profile_created")
                      ELSE profAudit]

AcctResult(status, us, alog, plog) ==
    [status |-> status, users |-> us, acctAudit |-> alog, profAudit |-> plog,
     profiles |-> profiles,
     notificationPreferences |-> notificationPreferences,
     sellerProfiles |-> sellerProfiles]

\* the result of a handler that saves user u's row as the table us and then
\* logs event: an exception of the post_save receiver ends the request with
\* status 500 after the row was written
UserSaved(status, us, u, event) ==
    LET s == save_user_profile(u, us[u])
    IN [status |-> IF s.raised THEN 500 ELSE status,
        users |-> us,
        acctAudit |-> IF s.raised THEN acctAudit
                      ELSE log_audit_event(acctAudit, event, u),
        profAudit |-> s.profAudit,
        profiles |-> s.profiles,
        notificationPreferences |-> s.notificationPreferences,
        sellerProfiles |-> s.sellerProfiles]

AcctReject(status) == AcctResult(status, users, acctAudit, profAudit)

\* RegisterView.post with the post_save receiver create_user_profile; the
\* e-mail is the key of users, so an e-mail in use (by a deleted user too)
\* fails the serializer's uniqueness check
RegisterView_post(u, name, seller, pw) ==
    IF users[u].exists THEN AcctReject(400)
    ELSE LET instance ==
               [exists |-> TRUE, is_active |-> TRUE, is_deleted |-> FALSE,
                email_verified |-> FALSE, is_seller |-> seller,
                password |-> pw, deleted_at |-> NULL, full_name |-> name]
             s == create_user_profile(u, instance)
         IN [status |-> IF s.raised THEN 500 ELSE 201,
             users |-> [users EXCEPT ![u] = instance],
             acctAudit |-> IF s.raised THEN acctAudit
                           ELSE log_audit_event(acctAudit, "login_success", u),
             profAudit |-> s.profAudit,
             profiles |-> s.profiles,
             notificationPreferences |-> s.notificationPreferences,
             sellerProfiles |-> s.sellerProfiles]

\* verify_email for a valid token of user u's e-mail
verify_email(u) ==
    IF ~(users[u].exists /\ ~users[u].is_deleted) THEN AcctReject(404)
    ELSE IF users[u].email_verified THEN AcctReject(200)
    ELSE UserSaved(200, [users EXCEPT ![u].email_verified = TRUE], u,
                   "email_verified")

\* django.contrib.auth.authenticate with ModelBackend: the password matches
\* and the user is active
authenticate(u, pw) ==
    users[u].exists /\ users[u].password = pw /\ users[u].is_active

\* LoginSerializer.validate without the check of email_verified
LoginSerializer_validate_unverified(u, pw) ==
    IF ~(users[u].exists /\ ~users[u].is_deleted) THEN NULL
    ELSE IF ~authenticate(u, pw) THEN NULL
    ELSE IF ~users[u].is_active THEN NULL
    ELSE u

\* LoginSerializer.validate: the user the serializer returns, or NULL
LoginSerializer_validate(u, pw) ==
    IF ~(users[u].exists /\ ~users[u].is_deleted) THEN NULL
    ELSE IF ~authenticate(u, pw) THEN NULL
    ELSE IF ~users[u].is_active THEN NULL
    ELSE IF ~users[u].email_verified THEN NULL
    ELSE u

\* LoginView.post; status 200 carries the access token and the refresh cookie
LoginView_post(u, pw) ==
    IF LoginSerializer_validate(u, pw) # NULL
    THEN AcctResult(200, users,
           cleanup_old_audit_logs(
               log_audit_event(acctAudit, "login_success", u), u),
           profAudit)
    ELSE AcctResult(400, users,
           log_audit_event(acctAudit, "login_failed",
               IF users[u].exists /\ ~users[u].is_deleted THEN u ELSE NULL),
           profAudit)

DeleteAccountView_post(u, pw) ==
    IF ~Authenticated(u) THEN AcctReject(401)
    ELSE IF users[u].password # pw THEN AcctReject(400)
    ELSE UserSaved(200, [users EXCEPT ![u] = User_soft_delete(users[u])], u,
                   "account_deleted")

ChangePasswordView_post(u, old, new) ==
    IF ~Authenticated(u) THEN AcctReject(401)
    ELSE IF users[u].password # old THEN AcctReject(400)
    ELSE UserSaved(200, [users EXCEPT ![u].password = new], u,
                   "password_changed")

\* ForgotPasswordView.post for the submitted e-mail (NULL: none submitted);
\* body is the message of the response
ForgotPasswordView_post(email) ==
    IF email = NULL
    THEN [body |-> "Email is required."] @@ AcctReject(400)
    ELSE IF users[email].exists /\ ~users[email].is_deleted
    THEN [body |-> "Password reset email sent."]
         @@ AcctResult(200, users,
                log_audit_event(acctAudit, "password_reset_requested", email),
                profAudit)
    ELSE [body |-> "If an account exists with this email, a password reset link has been sent."]
         @@ AcctReject(200)

\* the database after an accounts request with result r
AcctStep(r) ==
    /\ Len(r.acctAudit) <= MaxAcctLog
    /\ Len(r.profAudit) <= MaxProfLog
    /\ users' = r.users
    /\ acctAudit' = r.acctAudit
    /\ profAudit' = r.profAudit
    /\ profiles' = r.profiles
    /\ notificationPreferences' = r.notificationPreferences
    /\ sellerProfiles' = r.sellerProfiles
    /\ UNCHANGED <<products, carts, items, nextItemId, images, nextImageId,
                   addresses, nextAddrId, reviews, cartAudit, prodAudit>>
    /\ UNCHANGED inflight
    /\ UNCHANGED nextReviewId

Register(u, name, seller, pw) ==
    AcctStep(RegisterView_post(u, name, seller, pw))

VerifyEmail(u) == AcctStep(verify_email(u))

Login(u, pw) == AcctStep(LoginView_post(u, pw))

DeleteAccount(u, pw) == AcctStep(DeleteAccountView_post(u, pw))

ChangePassword(u, old, new) == AcctStep(ChangePasswordView_post(u, old, new))

ForgotPassword(email) == AcctStep(ForgotPasswordView_post(email))

(* ----------------------------- products -------------------------------- *)
Product_is_available(row) == row.is_active /\ ~row.is_deleted /\ row.stock > 0

\* Product.save: the row written
Product_save(row) ==
    IF row.stock = 0 THEN [row EXCEPT !.is_active = FALSE] ELSE row

\* create_product_audit_log (post_save receiver of Product); old_stock is the
\* stock the pre_save receiver track_stock_changes read from the database
create_product_audit_log(log, p, row, created, old_stock) ==
    IF created
    THEN Append(log, [product |-> p, user |-> row.seller, action |-> "CREATE",
                      ip_address |-> NULL])
    ELSE IF old_stock # row.stock
    THEN Append(log, [product |-> p, user |-> row.seller,
                      action |-> "STOCK_CHANGE", ip_address |-> NULL])
    ELSE log

\* Product.is_low_stock of a product created with the default threshold
Product_is_low_stock(row) ==
    row.stock > 0 /\ row.stock <= LOW_STOCK_THRESHOLD

\* ProductViewSet.get_queryset without the filter is_deleted = False
get_queryset_with_deleted(u, action) ==
    LET base == {p \in Products : products[p].exists}
    IN IF ~Authenticated(u) \/ ~users[u].is_seller
       THEN {p \in base : products[p].is_active}
       ELSE IF action = "my_products"
       THEN {p \in base : products[p].seller = u}
       ELSE {p \in base : products[p].is_active}

\* ProductViewSet.get_queryset for a request of user u and the given action
get_queryset(u, action) ==
    LET base == {p \in Products : products[p].exists /\ ~products[p].is_deleted}
    IN IF ~Authenticated(u) \/ ~users[u].is_seller
       THEN {p \in base : products[p].is_active}
       ELSE IF action = "my_products"
       THEN {p \in base : products[p].seller = u}
       ELSE {p \in base : products[p].is_active}

\* ProductImage.save without the update of the other images
ProductImage_save_keep(imgs, img) ==
    {i \in imgs : i.id # img.id} \cup {img}

\* ProductImage.save of the image row img (new or stored): the table after
ProductImage_save(imgs, img) ==
    LET cleared ==
          IF img.is_primary
          THEN {IF i.product = img.product /\ i.is_primary /\ i.id # img.id
                THEN [i EXCEPT !.is_primary = FALSE] ELSE i : i \in imgs}
          ELSE imgs
    IN {i \in cleared : i.id # img.id} \cup {img}

\* the loop "for idx, image in enumerate(images): ProductImage.objects.create"
\* from idx = done on; current_count is the image count before the loop and
\* primary_first says whether idx 0 is created with is_primary = True
RECURSIVE CreateImages(_, _, _, _, _, _, _)
CreateImages(imgs, nid, p, n, done, current_count, primary_first) ==
    IF done = n THEN imgs
    ELSE CreateImages(
           ProductImage_save(imgs, [id |-> nid, product |-> p,
                                    is_primary |-> (primary_first /\ done = 0),
                                    order |-> current_count + done]),
           nid + 1, p, n, done + 1, current_count, primary_first)

ImageCount(p) == Cardinality({i \in images : i.product = p})

FreeProducts == {p \in Products : ~products[p].exists}

\* primary keys are handed out in order
NextProduct ==
    ProductIds[CHOOSE k \in DOMAIN ProductIds :
                 /\ ProductIds[k] \in FreeProducts
                 /\ \A j \in 1..(k - 1) : ProductIds[j] \notin FreeProducts]

ProdResult(status, ps, log, imgs, nid) ==
    [status |-> status, products |-> ps, prodAudit |-> log, images |-> imgs,
     nextImageId |-> nid]

ProdReject(status) ==
    ProdResult(status, products, prodAudit, images, nextImageId)

\* ProductViewSet.create with ProductWriteSerializer.create; n is the number
\* of uploaded images
ProductViewSet_create(u, price, stock, active, n) ==
    IF ~Authenticated(u) THEN ProdReject(401)
    ELSE IF ~users[u].is_seller THEN ProdReject(403)
    ELSE IF price <= 0 \/ stock < 0 \/ n > MAX_IMAGES_PER_PRODUCT
    THEN ProdReject(400)
    ELSE LET p == NextProduct
             row == Product_save(
                      [exists |-> TRUE, seller |-> u, price |-> price,
                       stock |-> stock, is_active |-> active,
                       is_deleted |-> FALSE, deleted_at |-> NULL])
         IN ProdResult(201,
              [products EXCEPT ![p] = row],
              Append(create_product_audit_log(prodAudit, p, row, TRUE, 0),
                     [product |-> p, user |-> u, action |-> "CREATE",
                      ip_address |-> IP]),
              CreateImages(images, nextImageId, p, n, 0, 0, TRUE),
              nextImageId + n)

\* ProductViewSet.update / partial_update with ProductWriteSerializer.update:
\* a field left out by a partial update is the field given its stored value
ProductViewSet_update(u, p, price, stock, active, n) ==
    IF ~Authenticated(u) THEN ProdReject(401)
    ELSE IF p \notin get_queryset(u, "update") THEN ProdReject(404)
    ELSE IF products[p].seller # u THEN ProdReject(403)
    ELSE IF price <= 0 \/ stock < 0 \/ n > MAX_IMAGES_PER_PRODUCT
    THEN ProdReject(400)
    ELSE LET old == products[p]
             row == Product_save([old EXCEPT !.price = price,
                                             !.stock = stock,
                                             !.is_active = active])
             log1 == create_product_audit_log(prodAudit, p, row, FALSE,
                                              old.stock)
             changed == old.price # row.price \/ old.stock # row.stock
                        \/ old.is_active # row.is_active
         IN ProdResult(200,
              [products EXCEPT ![p] = row],
              IF changed
              THEN Append(log1, [product |-> p, user |-> u,
                                 action |-> "UPDATE", ip_address |-> IP])
              ELSE log1,
              IF n > 0
              THEN CreateImages(images, nextImageId, p, n, 0, ImageCount(p),
                                ImageCount(p) = 0)
              ELSE images,
              nextImageId + n)

\* ProductViewSet.list: the products of the listing (all pages)
ProductViewSet_list(u) ==
    [status |-> 200, results |-> get_queryset(u, "list")]

\* ProductViewSet.retrieve (ModelViewSet's): get_object over get_queryset
ProductViewSet_retrieve(u, p) ==
    IF p \in get_queryset(u, "retrieve")
    THEN [status |-> 200, results |-> {p}]
    ELSE [status |-> 404, results |-> {}]

ProductViewSet_my_products(u) ==
    IF ~Authenticated(u) THEN [status |-> 401, results |-> {}]
    ELSE IF ~users[u].is_seller THEN [status |-> 403, results |-> {}]
    ELSE [status |-> 200, results |-> get_queryset(u, "my_products")]

Product_soft_delete(row) ==
    [row EXCEPT !.is_deleted = TRUE, !.deleted_at = NOW, !.is_active = FALSE]

ProductViewSet_destroy(u, p) ==
    IF ~Authenticated(u) THEN ProdReject(401)
    ELSE IF p \notin get_queryset(u, "destroy") THEN ProdReject(404)
    ELSE IF products[p].seller # u THEN ProdReject(403)
    ELSE LET row == Product_save(Product_soft_delete(products[p]))
         IN ProdResult(204,
              [products EXCEPT ![p] = row],
              Append(create_product_audit_log(prodAudit, p, row, FALSE,
                                              products[p].stock),
                     [product |-> p, user |-> u, action |-> "DELETE",
                      ip_address |-> IP]),
              images, nextImageId)

\* ProductViewSet.bulk_delete whose queryset is not filtered by seller
ProductViewSet_bulk_delete_any_seller(u, ids) ==
    IF ~Authenticated(u) THEN ProdReject(401)
    ELSE IF ~users[u].is_seller THEN ProdReject(403)
    ELSE IF ids = {} THEN ProdReject(400)
    ELSE LET found == {p \in ids : products[p].exists
                                   /\ ~products[p].is_deleted}
         IN IF found = {} THEN ProdReject(404)
            ELSE ProdResult(200,
                   [p \in Products |->
                      IF p \in found THEN Product_soft_delete(products[p])
                      ELSE products[p]],
                   prodAudit, images, nextImageId)

\* ProductViewSet.bulk_delete.  The queryset is evaluated again after
\* products.update(...), when no row matches is_deleted = False any more: the
\* loop that writes the audit log runs over no row
ProductViewSet_bulk_delete(u, ids) ==
    IF ~Authenticated(u) THEN ProdReject(401)
    ELSE IF ~users[u].is_seller THEN ProdReject(403)
    ELSE IF ids = {} THEN ProdReject(400)
    ELSE LET found == {p \in ids : products[p].exists
                                   /\ products[p].seller = u
                                   /\ ~products[p].is_deleted}
         IN IF found = {} THEN ProdReject(404)
            ELSE ProdResult(200,
                   [p \in Products |->
                      IF p \in found THEN Product_soft_delete(products[p])
                      ELSE products[p]],
                   prodAudit, images, nextImageId)

ProductViewSet_add_images(u, p, n) ==
    IF ~Authenticated(u) THEN ProdReject(401)
    ELSE IF p \notin get_queryset(u, "add_images") THEN ProdReject(404)
    ELSE IF products[p].seller # u THEN ProdReject(403)
    ELSE IF n = 0 \/ n > MAX_IMAGES_PER_PRODUCT
            \/ ImageCount(p) + n > MAX_IMAGES_PER_PRODUCT
    THEN ProdReject(400)
    ELSE ProdResult(201, products, prodAudit,
           CreateImages(images, nextImageId, p, n, 0, ImageCount(p),
                        ImageCount(p) = 0),
           nextImageId + n)

\* image_id = 0 stands for a request without image_id
ProductViewSet_delete_image(u, p, image_id) ==
    IF ~Authenticated(u) THEN ProdReject(401)
    ELSE IF p \notin get_queryset(u, "delete_image") THEN ProdReject(404)
    ELSE IF products[p].seller # u THEN ProdReject(403)
    ELSE IF image_id = 0 THEN ProdReject(400)
    ELSE IF ~\E i \in images : i.id = image_id /\ i.product = p
    THEN ProdReject(404)
    ELSE ProdResult(200, products, prodAudit,
                    {i \in images : i.id # image_id}, nextImageId)

\* the database after a products request with result r
ProdStep(r) ==
    /\ Len(r.prodAudit) <= MaxProdLog
    /\ r.nextImageId <= MaxImageId + 1
    /\ products' = r.products
    /\ prodAudit' = r.prodAudit
    /\ images' = r.images
    /\ nextImageId' = r.nextImageId
    /\ UNCHANGED <<users, carts, items, nextItemId, addresses, nextAddrId,
                   reviews, acctAudit, cartAudit, profAudit>>
    /\ UNCHANGED inflight
    /\ UNCHANGED nextReviewId
    /\ UNCHANGED profileTables

CreateProduct(u, price, stock, active, n) ==
    /\ FreeProducts # {}
    /\ ProdStep(ProductViewSet_create(u, price, stock, active, n))

UpdateProduct(u, p, price, stock, active, n) ==
    ProdStep(ProductViewSet_update(u, p, price, stock, active, n))

DestroyProduct(u, p) == ProdStep(ProductViewSet_destroy(u, p))

BulkDelete(u, ids) == ProdStep(ProductViewSet_bulk_delete(u, ids))

AddImages(u, p, n) == ProdStep(ProductViewSet_add_images(u, p, n))

DeleteImage(u, p, image_id) ==
    ProdStep(ProductViewSet_delete_image(u, p, image_id))

(* ------------------------------- carts --------------------------------- *)
CartItemsOf(its, u) == {i \in its : i.cart = u}

HasItemIn(its, u, p) == \E i \in its : i.cart = u /\ i.product = p

ItemIn(its, u, p) == CHOOSE i \in its : i.cart = u /\ i.product = p

CartItem_total_price(i) == i.price_at_addition * i.quantity

RECURSIVE SumTotals(_)
SumTotals(S) ==
    IF S = {} THEN 0
    ELSE LET i == CHOOSE x \in S : TRUE
         IN CartItem_total_price(i) + SumTotals(S \ {i})

\* Cart.subtotal of u's cart when the item table is its
Cart_subtotal(its, u) == SumTotals(CartItemsOf(its, u))

Cart_has_unavailable_items(u) ==
    \E i \in CartItemsOf(items, u) : \/ ~products[i.product].is_active
                                     \/ products[i.product].is_deleted
                                     \/ products[i.product].stock = 0

\* CartItem.clean: TRUE when no ValidationError is raised
CartItem_clean(i) ==
    /\ Product_is_available(products[i.product])
    /\ i.cart # products[i.product].seller
    /\ ~(i.quantity > products[i.product].stock)
    /\ ~(i.quantity > MAX_QUANTITY_PER_ITEM)

\* CartItem.save taking the price on every save
CartItem_save_current_price(i, has_pk) ==
    [i EXCEPT !.price_at_addition = products[i.product].price]

\* CartItem.save up to the call of clean: the row about to be written
CartItem_save(i, has_pk) ==
    IF ~has_pk THEN [i EXCEPT !.price_at_addition = products[i.product].price]
    ELSE i

\* post_save receiver of CartItem; old_quantity is what the pre_save receiver
\* track_quantity_changes read from the database
log_cart_item_changes(log, i, created, old_quantity) ==
    IF created
    THEN Append(log, [cart |-> i.cart, user |-> i.cart, action |-> "ADD",
                      product |-> i.product, ip_address |-> NULL])
    ELSE IF old_quantity # i.quantity
    THEN Append(log, [cart |-> i.cart, user |-> i.cart, action |-> "UPDATE",
                      product |-> i.product, ip_address |-> NULL])
    ELSE log

\* post_delete receiver of CartItem
log_cart_item_deletion(log, i) ==
    Append(log, [cart |-> i.cart, user |-> i.cart, action |-> "REMOVE",
                 product |-> i.product, ip_address |-> NULL])

CartResult(status, cs, its, nid, log) ==
    [status |-> status, carts |-> cs, items |-> its, nextItemId |-> nid,
     cartAudit |-> log]

CartReject(status) == CartResult(status, carts, items, nextItemId, cartAudit)

\* get_or_create that never finds the row
item_created_always(its, u, p) == TRUE

\* the flag get_or_create(cart=cart, product=product) returns
item_created(its, u, p) == ~HasItemIn(its, u, p)

AddToCartSerializer_is_valid(u, p, q) ==
    /\ q >= 1
    /\ ~(q > MAX_QUANTITY_PER_ITEM)
    /\ products[p].exists /\ products[p].is_active /\ ~products[p].is_deleted
    /\ Product_is_available(products[p])
    /\ ~(q > products[p].stock)
    /\ u # products[p].seller

\* AddToCartView.post.  A ValidationError raised by CartItem.save leaves the
\* atomic block by exception and rolls the cart's creation back; the early
\* error returns leave it normally and commit it
AddToCartView_post(u, p, q) ==
    IF ~Authenticated(u) THEN CartReject(401)
    ELSE IF ~AddToCartSerializer_is_valid(u, p, q) THEN CartReject(400)
    ELSE IF ~(products[p].exists /\ products[p].is_active
              /\ ~products[p].is_deleted)
    THEN CartReject(404)
    ELSE IF item_created(items, u, p)
    THEN LET row == CartItem_save(
                      [id |-> nextItemId, cart |-> u, product |-> p,
                       quantity |-> q,
                       price_at_addition |-> products[p].price], FALSE)
         IN IF ~CartItem_clean(row) THEN CartReject(400)
            ELSE CartResult(201, carts \cup {u}, items \cup {row},
                            nextItemId + 1,
                            log_cart_item_changes(cartAudit, row, TRUE, 0))
    ELSE LET cart_item == ItemIn(items, u, p)
             new_quantity == cart_item.quantity + q
             row == CartItem_save(
                      [cart_item EXCEPT !.quantity = new_quantity], TRUE)
         IN IF new_quantity > MAX_QUANTITY_PER_ITEM
               \/ new_quantity > products[p].stock
            THEN CartResult(400, carts \cup {u}, items, nextItemId, cartAudit)
            ELSE IF ~CartItem_clean(row) THEN CartReject(400)
            ELSE CartResult(200, carts \cup {u},
                            (items \ {cart_item}) \cup {row}, nextItemId,
                            log_cart_item_changes(cartAudit, row, FALSE,
                                                  cart_item.quantity))

UpdateCartItemSerializer_is_valid(p, q) ==
    /\ q >= 0
    /\ ~(q > MAX_QUANTITY_PER_ITEM)
    /\ products[p].exists
    /\ ~(q > 0 /\ q > products[p].stock)

\* UpdateCartItemView.patch that writes the quantity without validating it
\* against the product
UpdateCartItemView_patch_unchecked(u, p, q) ==
    IF ~Authenticated(u) THEN CartReject(401)
    ELSE IF ~(q >= 0 /\ ~(q > MAX_QUANTITY_PER_ITEM) /\ products[p].exists)
    THEN CartReject(400)
    ELSE IF u \notin carts \/ ~HasItemIn(items, u, p) THEN CartReject(404)
    ELSE LET cart_item == ItemIn(items, u, p)
             row == [cart_item EXCEPT !.quantity = q]
         IN CartResult(200, carts, (items \ {cart_item}) \cup {row},
                nextItemId,
                Append(log_cart_item_changes(cartAudit, row, FALSE,
                                             cart_item.quantity),
                       [cart |-> u, user |-> u, action |-> "UPDATE",
                        product |-> p, ip_address |-> IP]))

UpdateCartItemView_patch(u, p, q) ==
    IF ~Authenticated(u) THEN CartReject(401)
    ELSE IF ~UpdateCartItemSerializer_is_valid(p, q) THEN CartReject(400)
    ELSE IF u \notin carts \/ ~HasItemIn(items, u, p) THEN CartReject(404)
    ELSE LET cart_item == ItemIn(items, u, p)
             row == CartItem_save([cart_item EXCEPT !.quantity = q], TRUE)
         IN IF ~CartItem_clean(row) THEN CartReject(400)
            ELSE CartResult(200, carts, (items \ {cart_item}) \cup {row},
                   nextItemId,
                   Append(log_cart_item_changes(cartAudit, row, FALSE,
                                                cart_item.quantity),
                          [cart |-> u, user |-> u, action |-> "UPDATE",
                           product |-> p, ip_address |-> IP]))

RemoveFromCartView_delete(u, p) ==
    IF ~Authenticated(u) THEN CartReject(401)
    ELSE IF ~products[p].exists THEN CartReject(400)
    ELSE IF u \notin carts \/ ~HasItemIn(items, u, p) THEN CartReject(404)
    ELSE CartResult(200, carts, items \ {ItemIn(items, u, p)}, nextItemId,
                    log_cart_item_deletion(cartAudit, ItemIn(items, u, p)))

\* Cart.clear: the rows are deleted newest first (Meta.ordering), each firing
\* the post_delete receiver
RECURSIVE Cart_clear_log(_, _)
Cart_clear_log(log, S) ==
    IF S = {} THEN log
    ELSE LET i == CHOOSE x \in S : \A y \in S : y.id <= x.id
         IN Cart_clear_log(log_cart_item_deletion(log, i), S \ {i})

ClearCartView_delete(u) ==
    IF ~Authenticated(u) THEN CartReject(401)
    ELSE IF u \notin carts THEN CartReject(404)
    ELSE IF CartItemsOf(items, u) = {} THEN CartReject(400)
    ELSE CartResult(200, carts, items \ CartItemsOf(items, u), nextItemId,
           Append(Cart_clear_log(cartAudit, CartItemsOf(items, u)),
                  [cart |-> u, user |-> u, action |-> "CLEAR",
                   product |-> NULL, ip_address |-> IP]))

\* CartView.get / CartSummaryView.get: get_or_create of the caller's cart
CartView_get(u) ==
    IF ~Authenticated(u) THEN CartReject(401)
    ELSE CartResult(200, carts \cup {u}, items, nextItemId, cartAudit)

CartItem_price_changed(i) == i.price_at_addition # products[i.product].price

CartItem_price_difference(i) == products[i.product].price - i.price_at_addition

CartItem_is_available(i) == Product_is_available(products[i.product])

\* has_sufficient_stock that refuses a quantity equal to the stock
CartItem_has_sufficient_stock_strict(i) ==
    products[i.product].stock > i.quantity

CartItem_has_sufficient_stock(i) == products[i.product].stock >= i.quantity

\* stock_status that compares the stock before looking at availability
CartItem_stock_status_stock_first(i) ==
    IF ~CartItem_has_sufficient_stock(i) THEN "insufficient_stock"
    ELSE IF Product_is_low_stock(products[i.product]) THEN "low_stock"
    ELSE IF ~CartItem_is_available(i) THEN "unavailable"
    ELSE "in_stock"

CartItem_stock_status(i) ==
    IF ~CartItem_is_available(i) THEN "unavailable"
    ELSE IF ~CartItem_has_sufficient_stock(i) THEN "insufficient_stock"
    ELSE IF Product_is_low_stock(products[i.product]) THEN "low_stock"
    ELSE "in_stock"

\* the list item_issues that ValidateCartView.get builds for item i
ItemIssues(i) ==
    (IF ~CartItem_is_available(i) THEN <<"unavailable">> ELSE <<>>)
    \o (IF ~CartItem_has_sufficient_stock(i)
        THEN <<"insufficient_stock">> ELSE <<>>)
    \o (IF CartItem_price_changed(i)
        THEN IF CartItem_price_difference(i) > 0
             THEN <<"price_increased">> ELSE <<"price_decreased">>
        ELSE <<>>)

\* the list issues of ValidateCartView.get over the items S, newest first
RECURSIVE ValidateItems(_)
ValidateItems(S) ==
    IF S = {} THEN <<>>
    ELSE LET i == CHOOSE x \in S : \A y \in S : y.id <= x.id
         IN (IF ItemIssues(i) # <<>>
             THEN <<[product_id |-> i.product, issues |-> ItemIssues(i)]>>
             ELSE <<>>)
            \o ValidateItems(S \ {i})

\* ValidateCartView.get; valid is NULL when the response carries no data
ValidateCartView_get(u) ==
    IF ~Authenticated(u)
    THEN [status |-> 401, valid |-> NULL, issues |-> <<>>]
    ELSE IF u \notin carts
    THEN [status |-> 404, valid |-> NULL, issues |-> <<>>]
    ELSE LET issues == ValidateItems(CartItemsOf(items, u))
         IN [status |-> 200, valid |-> (issues = <<>>), issues |-> issues]

\* the database after a carts request with result r
CartStep(r) ==
    /\ Len(r.cartAudit) <= MaxCartLog
    /\ r.nextItemId <= MaxItemId + 1
    /\ carts' = r.carts
    /\ items' = r.items
    /\ nextItemId' = r.nextItemId
    /\ cartAudit' = r.cartAudit
    /\ UNCHANGED <<users, products, images, nextImageId, addresses, nextAddrId,
                   reviews, acctAudit, prodAudit, profAudit>>
    /\ UNCHANGED inflight
    /\ UNCHANGED nextReviewId
    /\ UNCHANGED profileTables

AddToCart(u, p, q) == CartStep(AddToCartView_post(u, p, q))

UpdateCartItem(u, p, q) == CartStep(UpdateCartItemView_patch(u, p, q))

RemoveFromCart(u, p) == CartStep(RemoveFromCartView_delete(u, p))

ClearCart(u) == CartStep(ClearCartView_delete(u))

ViewCart(u) == CartStep(CartView_get(u))

(* ----------------- AddToCartView.post, statement by statement ----------- *)
\* another open transaction holds the lock on the row key of table
Locked(table, key, r) ==
    \E l \in locks : l.table = table /\ l.key = key /\ l.holder # r

LocksWithout(r) == {l \in locks : l.holder # r}

\* select_for_update() that reads the row without locking it
select_for_update_unlocked(table, key, r) == TRUE

\* QuerySet.select_for_update(): TRUE when request r can take the lock on the
\* row; otherwise r waits for the holder's transaction to end
select_for_update(table, key, r) == ~Locked(table, key, r)

\* the request r has ended with status: its transaction is over
AddDone(r, status) ==
    /\ adding' = [adding EXCEPT ![r].pc = "done", ![r].status = status]
    /\ locks' = LocksWithout(r)

\* the tables a rolled back or read-only end of request r leaves as they were
AddNothingWritten == UNCHANGED <<carts, items, nextItemId, cartAudit>>

\* what no step of AddToCartView.post writes
AddFrame ==
    /\ UNCHANGED <<users, products, images, nextImageId, addresses,
                   nextAddrId, reviews, nextReviewId, acctAudit, prodAudit,
                   profAudit, defaulting>>
    /\ UNCHANGED profileTables

\* the request arrives: permission check and AddToCartSerializer.is_valid,
\* before the transaction starts
AddStart(r, u, p, q) ==
    /\ adding[r].pc \in {"idle", "done"}
    /\ LET status == IF ~Authenticated(u) THEN 401
                     ELSE IF ~AddToCartSerializer_is_valid(u, p, q) THEN 400
                     ELSE 0
       IN adding' = [adding EXCEPT ![r] =
             [pc |-> IF status = 0 THEN "begin" ELSE "done", user |-> u,
              product |-> p, quantity |-> q, cart_item |-> NoItem,
              status |-> status]]
    /\ UNCHANGED locks
    /\ AddNothingWritten
    /\ AddFrame

\* Cart.objects.get_or_create(user=request.user): a cart row that another
\* open transaction has inserted makes the insert wait on the unique index
AddGetCart(r) ==
    /\ adding[r].pc = "begin"
    /\ adding[r].user \in carts \/ ~Locked("cart", adding[r].user, r)
    /\ adding' = [adding EXCEPT ![r].pc = "cart"]
    /\ locks' = IF adding[r].user \in carts THEN locks
                ELSE locks \cup {[table |-> "cart", key |-> adding[r].user,
                                  holder |-> r]}
    /\ AddNothingWritten
    /\ AddFrame

\* Product.objects.select_for_update().get(id, is_active=True,
\* is_deleted=False); DoesNotExist rolls the transaction back
AddLockProduct(r) ==
    /\ adding[r].pc = "cart"
    /\ select_for_update("product", adding[r].product, r)
    /\ LET p == adding[r].product
       IN IF products[p].exists /\ products[p].is_active
             /\ ~products[p].is_deleted
          THEN /\ adding' = [adding EXCEPT ![r].pc = "product"]
               /\ locks' = locks \cup {[table |-> "product", key |-> p,
                                        holder |-> r]}
          ELSE AddDone(r, 404)
    /\ AddNothingWritten
    /\ AddFrame

\* the rows request r writes when its transaction commits; the cart it
\* inserted becomes visible with them
AddCommit(r, status, its, nid, log) ==
    /\ Len(log) <= MaxCartLog
    /\ nid <= MaxItemId + 1
    /\ carts' = carts \cup {adding[r].user}
    /\ items' = its
    /\ nextItemId' = nid
    /\ cartAudit' = log
    /\ AddDone(r, status)

\* CartItem.objects.select_for_update().get_or_create(cart, product,
\* defaults): an existing row is locked and read; otherwise the row is
\* created, which is all the request had to do
AddGetItem(r) ==
    /\ adding[r].pc = "product"
    /\ LET u == adding[r].user
           p == adding[r].product
       IN IF item_created(items, u, p)
          THEN LET row == CartItem_save(
                            [id |-> nextItemId, cart |-> u, product |-> p,
                             quantity |-> adding[r].quantity,
                             price_at_addition |-> products[p].price], FALSE)
               IN IF ~CartItem_clean(row)
                  THEN AddDone(r, 400) /\ AddNothingWritten
                  ELSE AddCommit(r, 201, items \cup {row}, nextItemId + 1,
                          log_cart_item_changes(cartAudit, row, TRUE, 0))
          ELSE /\ select_for_update("item", ItemIn(items, u, p).id, r)
               /\ adding' = [adding EXCEPT
                     ![r].pc = "item", ![r].cart_item = ItemIn(items, u, p)]
               /\ locks' = locks \cup {[table |-> "item",
                                        key |-> ItemIn(items, u, p).id,
                                        holder |-> r]}
               /\ AddNothingWritten
    /\ AddFrame

\* the branch "if not created": the two limits, then cart_item.save().  The
\* error responses are returned inside the atomic block, which commits
AddUpdateItem(r) ==
    /\ adding[r].pc = "item"
    /\ LET cart_item == adding[r].cart_item
           p == adding[r].product
           new_quantity == cart_item.quantity + adding[r].quantity
           row == CartItem_save([cart_item EXCEPT !.quantity = new_quantity],
                                TRUE)
           stored == {i \in items : i.id = cart_item.id}
           old_quantity == IF stored = {} THEN new_quantity
                           ELSE (CHOOSE i \in stored : TRUE).quantity
       IN IF new_quantity > MAX_QUANTITY_PER_ITEM
             \/ new_quantity > products[p].stock
          THEN AddCommit(r, 400, items, nextItemId, cartAudit)
          ELSE IF ~CartItem_clean(row)
          THEN AddDone(r, 400) /\ AddNothingWritten
          ELSE AddCommit(r, 200, (items \ stored) \cup {row}, nextItemId,
                  log_cart_item_changes(cartAudit, row, FALSE, old_quantity))
    /\ AddFrame

\* a product update while no transaction holds the lock on the product row
UpdateUnlockedProduct(u, p, price, stock, active) ==
    /\ ~\E l \in locks : l.table = "product" /\ l.key = p
    /\ UpdateProduct(u, p, price, stock, active, 0)

(* ----------------------------- addresses ------------------------------- *)
UserAddresses(u) == {a \in addresses : a.user = u}

\* Address.save without the update of the other addresses
Address_save_keep(addrs, a, has_pk) ==
    LET first == ~has_pk /\ ~\E x \in addrs : x.user = a.user
                                 /\ x.address_type = a.address_type
        row == IF first THEN [a EXCEPT !.is_default = TRUE] ELSE a
    IN {x \in addrs : x.id # a.id} \cup {row}

\* Address.save of row a (has_pk: the row is already stored): the table after
Address_save(addrs, a, has_pk) ==
    LET cleared ==
          IF a.is_default
          THEN {IF x.user = a.user /\ x.address_type = a.address_type
                   /\ x.is_default /\ x.id # a.id
                THEN [x EXCEPT !.is_default = FALSE] ELSE x : x \in addrs}
          ELSE addrs
        first == ~has_pk /\ ~\E x \in cleared : x.user = a.user
                                 /\ x.address_type = a.address_type
        row == IF first THEN [a EXCEPT !.is_default = TRUE] ELSE a
    IN {x \in cleared : x.id # a.id} \cup {row}

AddrResult(status, addrs, nid, plog) ==
    [status |-> status, addresses |-> addrs, nextAddrId |-> nid,
     profAudit |-> plog]

AddrReject(status) == AddrResult(status, addresses, nextAddrId, profAudit)

\* AddressListCreateView POST whose validate compares the count with > 5
AddressListCreateView_create_over(u, type, is_default) ==
    IF ~Authenticated(u) THEN AddrReject(401)
    ELSE IF Cardinality(UserAddresses(u)) > MAX_ADDRESSES THEN AddrReject(400)
    ELSE AddrResult(201,
           Address_save(addresses,
              [id |-> nextAddrId, user |-> u, address_type |-> type,
               is_default |-> is_default], FALSE),
           nextAddrId + 1,
           log_profile_event(profAudit, u, "address_added"))

\* AddressListCreateView POST with AddressSerializer.validate
AddressListCreateView_create(u, type, is_default) ==
    IF ~Authenticated(u) THEN AddrReject(401)
    ELSE IF Cardinality(UserAddresses(u)) >= MAX_ADDRESSES THEN AddrReject(400)
    ELSE AddrResult(201,
           Address_save(addresses,
              [id |-> nextAddrId, user |-> u, address_type |-> type,
               is_default |-> is_default], FALSE),
           nextAddrId + 1,
           log_profile_event(profAudit, u, "address_added"))

\* PUT and PATCH of AddressDetailView: a field a PATCH leaves out is the field
\* given its stored value
AddressDetailView_update(u, id, type, is_default) ==
    IF ~Authenticated(u) THEN AddrReject(401)
    ELSE IF ~\E a \in UserAddresses(u) : a.id = id THEN AddrReject(404)
    ELSE AddrResult(200,
           Address_save(addresses,
              [id |-> id, user |-> u, address_type |-> type,
               is_default |-> is_default], TRUE),
           nextAddrId,
           log_profile_event(profAudit, u, "address_updated"))

AddressDetailView_destroy(u, id) ==
    IF ~Authenticated(u) THEN AddrReject(401)
    ELSE IF ~\E a \in UserAddresses(u) : a.id = id THEN AddrReject(404)
    ELSE AddrResult(204, {a \in addresses : a.id # id}, nextAddrId,
                    log_profile_event(profAudit, u, "address_deleted"))

SetDefaultAddressView_post(u, pk) ==
    IF ~Authenticated(u) THEN AddrReject(401)
    ELSE IF ~\E a \in UserAddresses(u) : a.id = pk THEN AddrReject(404)
    ELSE LET address == CHOOSE a \in addresses : a.id = pk
             unset == {IF x.user = u /\ x.address_type = address.address_type
                          /\ x.is_default /\ x.id # pk
                       THEN [x EXCEPT !.is_default = FALSE] ELSE x :
                       x \in addresses}
         IN AddrResult(200,
              Address_save(unset, [address EXCEPT !.is_default = TRUE], TRUE),
              nextAddrId, profAudit)

\* the database after an address request with result r, while the address
\* keys stay below next_id and the profile log within log_len rows
AddrStepUpTo(r, next_id, log_len) ==
    /\ Len(r.profAudit) <= log_len
    /\ r.nextAddrId <= next_id
    /\ addresses' = r.addresses
    /\ nextAddrId' = r.nextAddrId
    /\ profAudit' = r.profAudit
    /\ UNCHANGED <<users, products, carts, items, nextItemId, images,
                   nextImageId, reviews, acctAudit, cartAudit, prodAudit>>
    /\ UNCHANGED inflight
    /\ UNCHANGED nextReviewId
    /\ UNCHANGED profileTables

AddrStep(r) == AddrStepUpTo(r, MaxAddrId + 1, MaxProfLog)

\* the same requests in a database that already holds MAX_ADDRESSES - 1
\* addresses and the log rows of their creation
AddrStepFull(r) ==
    AddrStepUpTo(r, MAX_ADDRESSES + MaxAddrId, MAX_ADDRESSES + MaxProfLog)

CreateAddress(u, type, is_default) ==
    AddrStep(AddressListCreateView_create(u, type, is_default))

UpdateAddress(u, id, type, is_default) ==
    AddrStep(AddressDetailView_update(u, id, type, is_default))

DestroyAddress(u, id) == AddrStep(AddressDetailView_destroy(u, id))

SetDefaultAddress(u, pk) == AddrStep(SetDefaultAddressView_post(u, pk))

CreateFurtherAddress(u, type, is_default) ==
    AddrStepFull(AddressListCreateView_create(u, type, is_default))

DestroyFurtherAddress(u, id) == AddrStepFull(AddressDetailView_destroy(u, id))

SetFurtherDefaultAddress(u, pk) ==
    AddrStepFull(SetDefaultAddressView_post(u, pk))

(* ------------- address requests, statement by statement ---------------- *)
\* what no statement of an address request writes
DefaultFrame ==
    /\ UNCHANGED <<users, products, carts, items, nextItemId, images,
                   nextImageId, reviews, nextReviewId, acctAudit, cartAudit,
                   prodAudit, adding, locks>>
    /\ UNCHANGED profileTables

\* filter(user, address_type, is_default=True).exclude(pk).update(
\* is_default=False): one UPDATE statement
UnsetOtherDefaults(addrs, a) ==
    {IF x.user = a.user /\ x.address_type = a.address_type /\ x.is_default
        /\ x.id # a.id
     THEN [x EXCEPT !.is_default = FALSE] ELSE x : x \in addrs}

\* request r goes on at pc with the local instance address; a finished
\* request keeps its view and its status
DefaultAt(r, pc, view, u, address, status) ==
    defaulting' = [defaulting EXCEPT ![r] =
        [pc |-> pc, view |-> view, user |-> u, address |-> address,
         status |-> status]]

\* SetDefaultAddressView.post: Address.objects.get(pk=pk, user=request.user)
SetDefaultStart(r, u, pk) ==
    /\ defaulting[r].pc \in {"idle", "done"}
    /\ IF ~Authenticated(u)
       THEN DefaultAt(r, "done", "set_default", NULL, NoAddress, 401)
       ELSE IF ~\E a \in UserAddresses(u) : a.id = pk
       THEN DefaultAt(r, "done", "set_default", NULL, NoAddress, 404)
       ELSE DefaultAt(r, "read", "set_default", u,
                      CHOOSE a \in addresses : a.id = pk, 0)
    /\ UNCHANGED <<addresses, nextAddrId, profAudit>>
    /\ DefaultFrame

\* SetDefaultAddressView.post: the update of the other defaults, then
\* address.is_default = True on the instance read before
SetDefaultUnset(r) ==
    /\ defaulting[r].pc = "read"
    /\ addresses' = UnsetOtherDefaults(addresses, defaulting[r].address)
    /\ defaulting' = [defaulting EXCEPT
          ![r].pc = "save", ![r].address.is_default = TRUE]
    /\ UNCHANGED <<nextAddrId, profAudit>>
    /\ DefaultFrame

\* AddressListCreateView POST: permission, AddressSerializer.validate and the
\* new instance, which has no primary key yet
CreateStart(r, u, type, is_default) ==
    /\ defaulting[r].pc \in {"idle", "done"}
    /\ IF ~Authenticated(u)
       THEN DefaultAt(r, "done", "create", NULL, NoAddress, 401)
       ELSE IF Cardinality(UserAddresses(u)) >= MAX_ADDRESSES
       THEN DefaultAt(r, "done", "create", NULL, NoAddress, 400)
       ELSE DefaultAt(r, "save", "create", u,
               [id |-> 0, user |-> u, address_type |-> type,
                is_default |-> is_default], 0)
    /\ UNCHANGED <<addresses, nextAddrId, profAudit>>
    /\ DefaultFrame

\* AddressDetailView PUT and PATCH: get_object and the serializer's update of
\* the instance's fields
UpdateStart(r, u, id, type, is_default) ==
    /\ defaulting[r].pc \in {"idle", "done"}
    /\ IF ~Authenticated(u)
       THEN DefaultAt(r, "done", "update", NULL, NoAddress, 401)
       ELSE IF ~\E a \in UserAddresses(u) : a.id = id
       THEN DefaultAt(r, "done", "update", NULL, NoAddress, 404)
       ELSE DefaultAt(r, "save", "update", u,
               [id |-> id, user |-> u, address_type |-> type,
                is_default |-> is_default], 0)
    /\ UNCHANGED <<addresses, nextAddrId, profAudit>>
    /\ DefaultFrame

\* Address.save, first statement: the update of the other defaults when the
\* instance is a default
SaveUnset(r) ==
    /\ defaulting[r].pc = "save"
    /\ addresses' = IF defaulting[r].address.is_default
                    THEN UnsetOtherDefaults(addresses, defaulting[r].address)
                    ELSE addresses
    /\ defaulting' = [defaulting EXCEPT ![r].pc = "write"]
    /\ UNCHANGED <<nextAddrId, profAudit>>
    /\ DefaultFrame

\* Address.save, the rest: a new address that is the first of its type
\* becomes a default, then the row is inserted or updated; the view then
\* writes the profile log and answers
SaveWrite(r) ==
    /\ defaulting[r].pc = "write"
    /\ LET a == defaulting[r].address
           view == defaulting[r].view
           first == a.id = 0 /\ ~\E x \in addresses :
                        x.user = a.user /\ x.address_type = a.address_type
           row == [a EXCEPT !.id = IF a.id = 0 THEN nextAddrId ELSE a.id,
                            !.is_default = a.is_default \/ first]
           log == IF view = "create"
                  THEN log_profile_event(profAudit, a.user, "address_added")
                  ELSE IF view = "update"
                  THEN log_profile_event(profAudit, a.user, "address_updated")
                  ELSE profAudit
       IN /\ Len(log) <= MaxProfLog
          /\ row.id <= MaxAddrId
          /\ addresses' = {x \in addresses : x.id # row.id} \cup {row}
          /\ nextAddrId' = IF a.id = 0 THEN nextAddrId + 1 ELSE nextAddrId
          /\ profAudit' = log
          /\ DefaultAt(r, "done", view, NULL, NoAddress,
                       IF view = "create" THEN 201 ELSE 200)
    /\ DefaultFrame

(* ------------------------------ reviews -------------------------------- *)
ReviewResult(status, rs, nid) ==
    [status |-> status, reviews |-> rs, nextReviewId |-> nid]

ReviewReject(status) == ReviewResult(status, reviews, nextReviewId)

\* ProductReviewSerializer.validate without the test of the product's seller
ProductReviewSerializer_validate_anyone(u, product) == TRUE

\* ProductReviewSerializer.validate: TRUE when no ValidationError is raised;
\* product is NULL when the request names none
ProductReviewSerializer_validate(u, product) ==
    ~(product # NULL /\ products[product].seller = u)

\* the constraint unique_together = ('product', 'user') on the table rs with
\* the row of key id set to (product, user): TRUE when it holds
ProductReview_unique(rs, id, product, user) ==
    ~\E r \in rs : r.id # id /\ r.product = product /\ r.user = user

\* ProductReviewViewSet.create: the serializer has no validator for the
\* unique constraint, the IntegrityError of the insert is answered 400
ProductReviewViewSet_create(u, p) ==
    IF ~Authenticated(u) THEN ReviewReject(401)
    ELSE IF ~products[p].exists THEN ReviewReject(400)
    ELSE IF ~ProductReviewSerializer_validate(u, p) THEN ReviewReject(400)
    ELSE IF ~ProductReview_unique(reviews, nextReviewId, p, u)
    THEN ReviewReject(400)
    ELSE ReviewResult(201,
           reviews \cup {[id |-> nextReviewId, product |-> p, user |-> u]},
           nextReviewId + 1)

\* ProductReviewViewSet.update and partial_update of review pk; product is
\* the product the request names, NULL when it names none.  The
\* IntegrityError of the update is not caught
ProductReviewViewSet_update(u, pk, product) ==
    IF ~Authenticated(u) THEN ReviewReject(401)
    ELSE IF ~\E r \in reviews : r.id = pk THEN ReviewReject(404)
    ELSE LET instance == CHOOSE r \in reviews : r.id = pk
             new_product == IF product = NULL THEN instance.product
                            ELSE product
         IN IF instance.user # u THEN ReviewReject(403)
            ELSE IF product # NULL /\ ~products[product].exists
            THEN ReviewReject(400)
            ELSE IF ~ProductReviewSerializer_validate(u, product)
            THEN ReviewReject(400)
            ELSE IF ~ProductReview_unique(reviews, pk, new_product, u)
            THEN ReviewReject(500)
            ELSE ReviewResult(200,
                   (reviews \ {instance})
                      \cup {[instance EXCEPT !.product = new_product]},
                   nextReviewId)

ProductReviewViewSet_destroy(u, pk) ==
    IF ~Authenticated(u) THEN ReviewReject(401)
    ELSE IF ~\E r \in reviews : r.id = pk THEN ReviewReject(404)
    ELSE IF (CHOOSE r \in reviews : r.id = pk).user # u
    THEN ReviewReject(403)
    ELSE ReviewResult(204, {r \in reviews : r.id # pk}, nextReviewId)

ReviewStep(r) ==
    /\ r.nextReviewId <= MaxReviewId + 1
    /\ reviews' = r.reviews
    /\ nextReviewId' = r.nextReviewId
    /\ UNCHANGED <<users, products, carts, items, nextItemId, images,
                   nextImageId, addresses, nextAddrId, acctAudit, cartAudit,
                   prodAudit, profAudit>>
    /\ UNCHANGED inflight
    /\ UNCHANGED profileTables

CreateReview(u, p) == ReviewStep(ProductReviewViewSet_create(u, p))

UpdateReview(u, pk, product) ==
    ReviewStep(ProductReviewViewSet_update(u, pk, product))

DestroyReview(u, pk) == ReviewStep(ProductReviewViewSet_destroy(u, pk))

(* --------------------------- seller profiles --------------------------- *)
\* SellerProfileDetailView.put and patch with a new store_name.  A seller
\* without seller profile makes request.user.seller_profile raise
SellerProfileDetailView_put(u, store_name) ==
    LET reject(status) == [status |-> status, sellerProfiles |-> sellerProfiles,
                           profAudit |-> profAudit]
    IN IF ~Authenticated(u) THEN reject(401)
       ELSE IF ~users[u].is_seller THEN reject(403)
       ELSE IF ~\E sp \in sellerProfiles : sp.user = u THEN reject(500)
       ELSE IF \E sp \in sellerProfiles :
                  sp.user # u /\ sp.store_name = store_name
       THEN reject(400)
       ELSE [status |-> 200,
             sellerProfiles |->
               {IF sp.user = u THEN [sp EXCEPT !.store_name = store_name]
                ELSE sp : sp \in sellerProfiles},
             profAudit |->
               log_profile_event(profAudit, u, "seller_profile_updated")]

\* the database after a seller profile request with result r
SellerStep(r) ==
    /\ Len(r.profAudit) <= MaxProfLog
    /\ sellerProfiles' = r.sellerProfiles
    /\ profAudit' = r.profAudit
    /\ UNCHANGED <<users, products, carts, items, nextItemId, images,
                   nextImageId, addresses, nextAddrId, reviews, acctAudit,
                   cartAudit, prodAudit, profiles, notificationPreferences>>
    /\ UNCHANGED inflight
    /\ UNCHANGED nextReviewId

UpdateStore(u, store_name) ==
    SellerStep(SellerProfileDetailView_put(u, store_name))

(* -------------------------- specifications ----------------------------- *)
\* accounts alone, from the empty database
AcctNext ==
    \/ \E u \in Users, s \in BOOLEAN, pw \in Passwords : Register(u, OwnName(u), s, pw)
    \/ \E u \in Users : VerifyEmail(u)
    \/ \E u \in Users, pw \in Passwords : Login(u, pw)
    \/ \E u \in Users, pw \in Passwords : DeleteAccount(u, pw)
    \/ \E u \in Users, old \in Passwords, new \in Passwords :
          ChangePassword(u, old, new)
    \/ \E email \in Users \cup {NULL} : ForgotPassword(email)

SpecAcct == Init /\ [][AcctNext]_vars

\* products and their images, from the empty database
ImgNext ==
    \/ \E u \in Users, s \in BOOLEAN : Register(u, OwnName(u), s, "pw1")
    \/ \E u \in Users, n \in 0..MaxUpload : CreateProduct(u, 1, 1, TRUE, n)
    \/ \E u \in Users, p \in Products, n \in 0..MaxUpload :
          UpdateProduct(u, p, 1, 1, TRUE, n)
    \/ \E u \in Users, p \in Products, n \in 0..MaxUpload : AddImages(u, p, n)
    \/ \E u \in Users, p \in Products, i \in 0..MaxImageId :
          DeleteImage(u, p, i)
    \/ \E u \in Users, p \in Products : DestroyProduct(u, p)
    \/ \E u \in Users, ids \in SUBSET Products : BulkDelete(u, ids)

SpecImg == Init /\ [][ImgNext]_vars

\* addresses, from the empty database
AddrNext ==
    \/ \E u \in Users : Register(u, OwnName(u), FALSE, "pw1")
    \/ \E u \in Users, t \in AddressTypes, d \in BOOLEAN :
          CreateAddress(u, t, d)
    \/ \E u \in Users, id \in 1..MaxAddrId, t \in AddressTypes, d \in BOOLEAN :
          UpdateAddress(u, id, t, d)
    \/ \E u \in Users, id \in 1..MaxAddrId : DestroyAddress(u, id)
    \/ \E u \in Users, id \in 1..MaxAddrId : SetDefaultAddress(u, id)

SpecAddr == Init /\ [][AddrNext]_vars

\* The shop after two registrations and two product creations: u1 registered
\* as a seller, u2 as a buyer, and u1 created the products p1 (price 1, stock
\* MaxStock) and p2 (price MaxPrice, stock 1), both active and without image
InitShop ==
    /\ users = [u \in Users |->
          [exists |-> TRUE, is_active |-> TRUE, is_deleted |-> FALSE,
           email_verified |-> FALSE, is_seller |-> (u = "u1"),
           password |-> "pw1", deleted_at |-> NULL,
           full_name |-> OwnName(u)]]
    /\ products = [p \in Products |->
          [exists |-> TRUE, seller |-> "u1",
           price |-> IF p = "p1" THEN 1 ELSE MaxPrice,
           stock |-> IF p = "p1" THEN MaxStock ELSE 1,
           is_active |-> TRUE, is_deleted |-> FALSE, deleted_at |-> NULL]]
    /\ carts = {}
    /\ items = {}
    /\ nextItemId = 1
    /\ images = {}
    /\ nextImageId = 1
    /\ addresses = {}
    /\ nextAddrId = 1
    /\ reviews = {}
    /\ nextReviewId = 1
    /\ adding = [r \in Requests |-> NoAdd]
    /\ locks = {}
    /\ defaulting = [r \in Requests |-> NoDefault]
    /\ acctAudit =
          <<[id |-> 1, user |-> "u1", event_type |-> "login_success"],
            [id |-> 2, user |-> "u2", event_type |-> "login_success"]>>
    /\ cartAudit = <<>>
    /\ prodAudit =
          <<[product |-> "p1", user |-> "u1", action |-> "CREATE",
             ip_address |-> NULL],
            [product |-> "p1", user |-> "u1", action |-> "CREATE",
             ip_address |-> IP],
            [product |-> "p2", user |-> "u1", action |-> "CREATE",
             ip_address |-> NULL],
            [product |-> "p2", user |-> "u1", action |-> "CREATE",
             ip_address |-> IP]>>
    /\ profAudit = <<[user |-> "u1", event_type |-> "profile_created"],
                     [user |-> "u2", event_type |-> "profile_created"]>>
    /\ profiles = Users
    /\ notificationPreferences = Users
    /\ sellerProfiles =
          {[user |-> "u1", store_name |-> "Ada Obi's Store",
            store_slug |-> "ada-obis-store"]}

\* a PATCH of one field of product p
PatchProduct(u, p) ==
    \/ \E price \in 0..MaxPrice :
          UpdateProduct(u, p, price, products[p].stock, products[p].is_active, 0)
    \/ \E stock \in 0..MaxStock :
          UpdateProduct(u, p, products[p].price, stock, products[p].is_active, 0)
    \/ \E active \in BOOLEAN :
          UpdateProduct(u, p, products[p].price, products[p].stock, active, 0)

ShopNext ==
    \/ \E u \in Users : DeleteAccount(u, "pw1")
    \/ \E u \in Users, p \in Products : PatchProduct(u, p)
    \/ \E u \in Users, p \in Products : DestroyProduct(u, p)
    \/ \E u \in Users, ids \in SUBSET Products : BulkDelete(u, ids)
    \/ \E u \in Users, p \in Products, q \in 0..(MaxStock + 1) :
          AddToCart(u, p, q)
    \/ \E u \in Users, p \in Products, q \in 0..(MaxStock + 1) :
          UpdateCartItem(u, p, q)
    \/ \E u \in Users, p \in Products : RemoveFromCart(u, p)
    \/ \E u \in Users : ClearCart(u)
    \/ \E u \in Users : ViewCart(u)

SpecShop == InitShop /\ [][ShopNext]_vars

\* the cart requests while the seller changes price, stock and is_active
CartNext ==
    \/ \E u \in Users, p \in Products : PatchProduct(u, p)
    \/ \E u \in Users, p \in Products, q \in 0..(MaxStock + 1) :
          AddToCart(u, p, q)
    \/ \E u \in Users, p \in Products, q \in 0..(MaxStock + 1) :
          UpdateCartItem(u, p, q)
    \/ \E u \in Users, p \in Products : RemoveFromCart(u, p)
    \/ \E u \in Users : ClearCart(u)
    \/ \E u \in Users : ViewCart(u)

SpecCart == InitShop /\ [][CartNext]_vars

\* deletions and the rows that reference the deleted user or product
DeleteNext ==
    \/ \E u \in Users : DeleteAccount(u, "pw1")
    \/ \E u \in Users, p \in Products : DestroyProduct(u, p)
    \/ \E u \in Users, ids \in SUBSET Products : BulkDelete(u, ids)
    \/ \E u \in Users, p \in Products, q \in 1..MaxStock : AddToCart(u, p, q)
    \/ \E u \in Users, p \in Products : RemoveFromCart(u, p)
    \/ \E u \in Users, p \in Products : CreateReview(u, p)
    \/ \E u \in Users, p \in Products, active \in BOOLEAN :
          UpdateProduct(u, p, products[p].price, products[p].stock, active, 0)

SpecDelete == InitShop /\ [][DeleteNext]_vars

\* The shop of InitShop after u2 and u1 verified their e-mail and u1 logged in
\* until u1 has KEEP_LAST - 1 rows in the account audit log
InitAudit ==
    /\ users = [u \in Users |->
          [exists |-> TRUE, is_active |-> TRUE, is_deleted |-> FALSE,
           email_verified |-> TRUE, is_seller |-> (u = "u1"),
           password |-> "pw1", deleted_at |-> NULL,
           full_name |-> OwnName(u)]]
    /\ products = [p \in Products |->
          [exists |-> TRUE, seller |-> "u1",
           price |-> IF p = "p1" THEN 1 ELSE MaxPrice,
           stock |-> IF p = "p1" THEN MaxStock ELSE 1,
           is_active |-> TRUE, is_deleted |-> FALSE, deleted_at |-> NULL]]
    /\ carts = {}
    /\ items = {}
    /\ nextItemId = 1
    /\ images = {}
    /\ nextImageId = 1
    /\ addresses = {}
    /\ nextAddrId = 1
    /\ reviews = {}
    /\ nextReviewId = 1
    /\ adding = [r \in Requests |-> NoAdd]
    /\ locks = {}
    /\ defaulting = [r \in Requests |-> NoDefault]
    /\ acctAudit =
          <<[id |-> 1, user |-> "u2", event_type |-> "login_success"],
            [id |-> 2, user |-> "u1", event_type |-> "login_success"],
            [id |-> 3, user |-> "u2", event_type |-> "email_verified"],
            [id |-> 4, user |-> "u1", event_type |-> "email_verified"]>>
          \o [k \in 1..(KEEP_LAST - 3) |->
                [id |-> k + 4, user |-> "u1", event_type |-> "login_success"]]
    /\ cartAudit = <<>>
    /\ prodAudit =
          <<[product |-> "p1", user |-> "u1", action |-> "CREATE",
             ip_address |-> NULL],
            [product |-> "p1", user |-> "u1", action |-> "CREATE",
             ip_address |-> IP],
            [product |-> "p2", user |-> "u1", action |-> "CREATE",
             ip_address |-> NULL],
            [product |-> "p2", user |-> "u1", action |-> "CREATE",
             ip_address |-> IP]>>
    /\ profAudit = <<[user |-> "u2", event_type |-> "profile_created"],
                     [user |-> "u1", event_type |-> "profile_created"]>>
    /\ profiles = Users
    /\ notificationPreferences = Users
    /\ sellerProfiles =
          {[user |-> "u1", store_name |-> "Ada Obi's Store",
            store_slug |-> "ada-obis-store"]}

\* the database after an accounts request with result r, while the account
\* audit log has had at most MaxOverKeep rows more than InitAudit's
AuditStep(r) ==
    /\ r.acctAudit[Len(r.acctAudit)].id <= KEEP_LAST + 1 + MaxOverKeep
    /\ users' = r.users
    /\ acctAudit' = r.acctAudit
    /\ profAudit' = r.profAudit
    /\ profiles' = r.profiles
    /\ notificationPreferences' = r.notificationPreferences
    /\ sellerProfiles' = r.sellerProfiles
    /\ UNCHANGED <<products, carts, items, nextItemId, images, nextImageId,
                   addresses, nextAddrId, reviews, cartAudit, prodAudit>>
    /\ UNCHANGED inflight
    /\ UNCHANGED nextReviewId

AuditNext ==
    \/ \E u \in Users, pw \in Passwords : AuditStep(LoginView_post(u, pw))
    \/ \E u \in Users : AuditStep(DeleteAccountView_post(u, "pw1"))
    \/ \E u \in Users, p \in Products : DestroyProduct(u, p)
    \/ \E u \in Users, p \in Products : AddToCart(u, p, 1)
    \/ \E u \in Users : ClearCart(u)

SpecAudit == InitAudit /\ [][AuditNext]_vars

\* The shop of InitShop when u1 created p1 with more stock than one cart item
\* may hold
InitQuantity ==
    /\ users = [u \in Users |->
          [exists |-> TRUE, is_active |-> TRUE, is_deleted |-> FALSE,
           email_verified |-> FALSE, is_seller |-> (u = "u1"),
           password |-> "pw1", deleted_at |-> NULL,
           full_name |-> OwnName(u)]]
    /\ products = [p \in Products |->
          [exists |-> TRUE, seller |-> "u1",
           price |-> IF p = "p1" THEN 1 ELSE MaxPrice,
           stock |-> IF p = "p1" THEN MAX_QUANTITY_PER_ITEM + 1 ELSE 1,
           is_active |-> TRUE, is_deleted |-> FALSE, deleted_at |-> NULL]]
    /\ carts = {}
    /\ items = {}
    /\ nextItemId = 1
    /\ images = {}
    /\ nextImageId = 1
    /\ addresses = {}
    /\ nextAddrId = 1
    /\ reviews = {}
    /\ nextReviewId = 1
    /\ adding = [r \in Requests |-> NoAdd]
    /\ locks = {}
    /\ defaulting = [r \in Requests |-> NoDefault]
    /\ acctAudit =
          <<[id |-> 1, user |-> "u1", event_type |-> "login_success"],
            [id |-> 2, user |-> "u2", event_type |-> "login_success"]>>
    /\ cartAudit = <<>>
    /\ prodAudit =
          <<[product |-> "p1", user |-> "u1", action |-> "CREATE",
             ip_address |-> NULL],
            [product |-> "p1", user |-> "u1", action |-> "CREATE",
             ip_address |-> IP],
            [product |-> "p2", user |-> "u1", action |-> "CREATE",
             ip_address |-> NULL],
            [product |-> "p2", user |-> "u1", action |-> "CREATE",
             ip_address |-> IP]>>
    /\ profAudit = <<[user |-> "u1", event_type |-> "profile_created"],
                     [user |-> "u2", event_type |-> "profile_created"]>>
    /\ profiles = Users
    /\ notificationPreferences = Users
    /\ sellerProfiles =
          {[user |-> "u1", store_name |-> "Ada Obi's Store",
            store_slug |-> "ada-obis-store"]}

\* requested quantities around the limit of one cart item
LimitQuantities ==
    {0, 1, 2, MAX_QUANTITY_PER_ITEM - 1, MAX_QUANTITY_PER_ITEM,
     MAX_QUANTITY_PER_ITEM + 1}

QuantityNext ==
    \/ \E u \in Users, p \in Products, q \in LimitQuantities :
          AddToCart(u, p, q)
    \/ \E u \in Users, p \in Products, q \in LimitQuantities :
          UpdateCartItem(u, p, q)
    \/ \E u \in Users, p \in Products : RemoveFromCart(u, p)
    \/ \E u \in Users : ClearCart(u)
    \/ \E u \in Users : ViewCart(u)

SpecQuantity == InitQuantity /\ [][QuantityNext]_vars

\* The shop after two registrations and one product creation: u1 registered as
\* a seller, u2 as a buyer, and u1 created the product p1 (price 1, stock
\* MaxStock, active, without image)
InitSingle ==
    /\ users = [u \in Users |->
          [exists |-> TRUE, is_active |-> TRUE, is_deleted |-> FALSE,
           email_verified |-> FALSE, is_seller |-> (u = "u1"),
           password |-> "pw1", deleted_at |-> NULL,
           full_name |-> OwnName(u)]]
    /\ products = [p \in Products |->
          IF p = "p1"
          THEN [exists |-> TRUE, seller |-> "u1", price |-> 1,
                stock |-> MaxStock, is_active |-> TRUE, is_deleted |-> FALSE,
                deleted_at |-> NULL]
          ELSE NoProduct]
    /\ carts = {}
    /\ items = {}
    /\ nextItemId = 1
    /\ images = {}
    /\ nextImageId = 1
    /\ addresses = {}
    /\ nextAddrId = 1
    /\ reviews = {}
    /\ nextReviewId = 1
    /\ adding = [r \in Requests |-> NoAdd]
    /\ locks = {}
    /\ defaulting = [r \in Requests |-> NoDefault]
    /\ acctAudit =
          <<[id |-> 1, user |-> "u1", event_type |-> "login_success"],
            [id |-> 2, user |-> "u2", event_type |-> "login_success"]>>
    /\ cartAudit = <<>>
    /\ prodAudit =
          <<[product |-> "p1", user |-> "u1", action |-> "CREATE",
             ip_address |-> NULL],
            [product |-> "p1", user |-> "u1", action |-> "CREATE",
             ip_address |-> IP]>>
    /\ profAudit = <<[user |-> "u1", event_type |-> "profile_created"],
                     [user |-> "u2", event_type |-> "profile_created"]>>
    /\ profiles = Users
    /\ notificationPreferences = Users
    /\ sellerProfiles =
          {[user |-> "u1", store_name |-> "Ada Obi's Store",
            store_slug |-> "ada-obis-store"]}

\* the cart requests on one product whose seller changes and deletes it
ValidateNext ==
    \/ \E u \in Users, p \in Products : PatchProduct(u, p)
    \/ \E u \in Users, p \in Products : DestroyProduct(u, p)
    \/ \E u \in Users, p \in Products, q \in 0..(MaxStock + 1) :
          AddToCart(u, p, q)
    \/ \E u \in Users, p \in Products, q \in 0..(MaxStock + 1) :
          UpdateCartItem(u, p, q)
    \/ \E u \in Users, p \in Products : RemoveFromCart(u, p)
    \/ \E u \in Users : ClearCart(u)
    \/ \E u \in Users : ViewCart(u)

SpecValidate == InitSingle /\ [][ValidateNext]_vars


\* Two registered users of whom u1 has created MAX_ADDRESSES - 1 addresses:
\* the first shipping and the first billing address became the defaults
InitFull ==
    /\ users = [u \in Users |->
          [exists |-> TRUE, is_active |-> TRUE, is_deleted |-> FALSE,
           email_verified |-> FALSE, is_seller |-> FALSE,
           password |-> "pw1", deleted_at |-> NULL,
           full_name |-> OwnName(u)]]
    /\ products = [p \in Products |-> NoProduct]
    /\ carts = {}
    /\ items = {}
    /\ nextItemId = 1
    /\ images = {}
    /\ nextImageId = 1
    /\ addresses =
          {[id |-> n, user |-> "u1",
            address_type |-> IF n = 2 THEN "billing" ELSE "shipping",
            is_default |-> n <= 2] : n \in 1..(MAX_ADDRESSES - 1)}
    /\ nextAddrId = MAX_ADDRESSES
    /\ reviews = {}
    /\ nextReviewId = 1
    /\ adding = [r \in Requests |-> NoAdd]
    /\ locks = {}
    /\ defaulting = [r \in Requests |-> NoDefault]
    /\ acctAudit =
          <<[id |-> 1, user |-> "u1", event_type |-> "login_success"],
            [id |-> 2, user |-> "u2", event_type |-> "login_success"]>>
    /\ cartAudit = <<>>
    /\ prodAudit = <<>>
    /\ profAudit =
          <<[user |-> "u1", event_type |-> "profile_created"],
            [user |-> "u2", event_type |-> "profile_created"]>>
          \o [n \in 1..(MAX_ADDRESSES - 1) |->
                [user |-> "u1", event_type |-> "address_added"]]
    /\ profiles = Users
    /\ notificationPreferences = Users
    /\ sellerProfiles = {}

FullNext ==
    \/ \E u \in Users, t \in AddressTypes, d \in BOOLEAN :
          CreateFurtherAddress(u, t, d)
    \/ \E u \in Users, id \in 1..(MAX_ADDRESSES + MaxAddrId) :
          DestroyFurtherAddress(u, id)
    \/ \E u \in Users, id \in 1..(MAX_ADDRESSES + MaxAddrId) :
          SetFurtherDefaultAddress(u, id)

SpecFull == InitFull /\ [][FullNext]_vars

\* registrations under chosen names, later saves of the user row and
\* renamings of the store, from the empty database
ProfileNext ==
    \/ \E u \in Users, name \in Names, s \in BOOLEAN :
          Register(u, name, s, "pw1")
    \/ \E u \in Users : VerifyEmail(u)
    \/ \E u \in Users : DeleteAccount(u, "pw1")
    \/ \E u \in Users, n \in StoreNames : UpdateStore(u, n)

SpecProfile == Init /\ [][ProfileNext]_vars

\* The shop after two registrations and two product creations: u1 registered
\* as a seller and created p1; p2 was created either by u1 too, with u2 a
\* buyer, or by u2, registered as a seller as well
InitReview ==
    \E s \in Users :
    /\ users = [u \in Users |->
          [exists |-> TRUE, is_active |-> TRUE, is_deleted |-> FALSE,
           email_verified |-> FALSE, is_seller |-> (u = "u1" \/ u = s),
           password |-> "pw1", deleted_at |-> NULL,
           full_name |-> OwnName(u)]]
    /\ products = [p \in Products |->
          [exists |-> TRUE, seller |-> IF p = "p1" THEN "u1" ELSE s,
           price |-> IF p = "p1" THEN 1 ELSE MaxPrice,
           stock |-> IF p = "p1" THEN MaxStock ELSE 1,
           is_active |-> TRUE, is_deleted |-> FALSE, deleted_at |-> NULL]]
    /\ carts = {}
    /\ items = {}
    /\ nextItemId = 1
    /\ images = {}
    /\ nextImageId = 1
    /\ addresses = {}
    /\ nextAddrId = 1
    /\ reviews = {}
    /\ nextReviewId = 1
    /\ adding = [r \in Requests |-> NoAdd]
    /\ locks = {}
    /\ defaulting = [r \in Requests |-> NoDefault]
    /\ acctAudit =
          <<[id |-> 1, user |-> "u1", event_type |-> "login_success"],
            [id |-> 2, user |-> "u2", event_type |-> "login_success"]>>
    /\ cartAudit = <<>>
    /\ prodAudit =
          <<[product |-> "p1", user |-> "u1", action |-> "CREATE",
             ip_address |-> NULL],
            [product |-> "p1", user |-> "u1", action |-> "CREATE",
             ip_address |-> IP],
            [product |-> "p2", user |-> s, action |-> "CREATE",
             ip_address |-> NULL],
            [product |-> "p2", user |-> s, action |-> "CREATE",
             ip_address |-> IP]>>
    /\ profAudit = <<[user |-> "u1", event_type |-> "profile_created"],
                     [user |-> "u2", event_type |-> "profile_created"]>>
    /\ profiles = Users
    /\ notificationPreferences = Users
    /\ sellerProfiles =
          {[user |-> "u1", store_name |-> "Ada Obi's Store",
            store_slug |-> "ada-obis-store"]}
          \cup IF s = "u2"
               THEN {[user |-> "u2", store_name |-> "Bola Ade's Store",
                      store_slug |-> "bola-ades-store"]}
               ELSE {}

\* the review requests while products are soft-deleted
ReviewNext ==
    \/ \E u \in Users, p \in Products : CreateReview(u, p)
    \/ \E u \in Users, pk \in 1..MaxReviewId, p \in Products \cup {NULL} :
          UpdateReview(u, pk, p)
    \/ \E u \in Users, pk \in 1..MaxReviewId : DestroyReview(u, pk)
    \/ \E u \in Users, p \in Products : DestroyProduct(u, p)
    \/ \E u \in Users : DeleteAccount(u, "pw1")

SpecReview == InitReview /\ [][ReviewNext]_vars

\* two AddToCartView.post requests run statement by statement while the
\* seller changes the stock of the product
AddingNext ==
    \/ \E r \in Requests, u \in Users, p \in Products, q \in 1..MaxStock :
          AddStart(r, u, p, q)
    \/ \E r \in Requests : AddGetCart(r)
    \/ \E r \in Requests : AddLockProduct(r)
    \/ \E r \in Requests : AddGetItem(r)
    \/ \E r \in Requests : AddUpdateItem(r)
    \/ \E u \in Users, p \in Products, stock \in 0..MaxStock :
          UpdateUnlockedProduct(u, p, products[p].price, stock,
                                products[p].is_active)

SpecAdding == InitSingle /\ [][AddingNext]_vars

\* Two registered users of whom u1 has created two shipping addresses: the
\* first became the default
InitDefault ==
    /\ users = [u \in Users |->
          [exists |-> TRUE, is_active |-> TRUE, is_deleted |-> FALSE,
           email_verified |-> FALSE, is_seller |-> FALSE,
           password |-> "pw1", deleted_at |-> NULL,
           full_name |-> OwnName(u)]]
    /\ products = [p \in Products |-> NoProduct]
    /\ carts = {}
    /\ items = {}
    /\ nextItemId = 1
    /\ images = {}
    /\ nextImageId = 1
    /\ addresses =
          {[id |-> n, user |-> "u1", address_type |-> "shipping",
            is_default |-> n = 1] : n \in 1..2}
    /\ nextAddrId = 3
    /\ reviews = {}
    /\ nextReviewId = 1
    /\ adding = [r \in Requests |-> NoAdd]
    /\ locks = {}
    /\ defaulting = [r \in Requests |-> NoDefault]
    /\ acctAudit =
          <<[id |-> 1, user |-> "u1", event_type |-> "login_success"],
            [id |-> 2, user |-> "u2", event_type |-> "login_success"]>>
    /\ cartAudit = <<>>
    /\ prodAudit = <<>>
    /\ profAudit =
          <<[user |-> "u1", event_type |-> "profile_created"],
            [user |-> "u2", event_type |-> "profile_created"],
            [user |-> "u1", event_type |-> "address_added"],
            [user |-> "u1", event_type |-> "address_added"]>>
    /\ profiles = Users
    /\ notificationPreferences = Users
    /\ sellerProfiles = {}

\* two address requests run statement by statement
DefaultingNext ==
    \/ \E r \in Requests, u \in Users, pk \in 1..MaxAddrId :
          SetDefaultStart(r, u, pk)
    \/ \E r \in Requests : SetDefaultUnset(r)
    \/ \E r \in Requests, u \in Users, t \in AddressTypes, d \in BOOLEAN :
          CreateStart(r, u, t, d)
    \/ \E r \in Requests, u \in Users, id \in 1..MaxAddrId,
          t \in AddressTypes, d \in BOOLEAN : UpdateStart(r, u, id, t, d)
    \/ \E r \in Requests : SaveUnset(r)
    \/ \E r \in Requests : SaveWrite(r)

SpecDefaulting == InitDefault /\ [][DefaultingNext]_vars
(* ------------------------------ properties ----------------------------- *)
\* C1: in every step the subtotal of each cart is the sum over its items of
\* the product's price at the moment the item's row was created (the price the
\* row held before the step, or the product's price if the step creates the
\* row) times the item's quantity after the step; later changes of the
\* product's price do not enter
C1_SubtotalUsesSnapshot ==
    [][\A u \in Users :
          LET created_at(i) ==
                IF \E j \in items : j.id = i.id
                THEN (CHOOSE j \in items : j.id = i.id).price_at_addition
                ELSE products[i.product].price
              RECURSIVE Sum(_)
              Sum(S) == IF S = {} THEN 0
                        ELSE LET i == CHOOSE x \in S : TRUE
                             IN created_at(i) * i.quantity + Sum(S \ {i})
          IN Cart_subtotal(items', u) = Sum(CartItemsOf(items', u))]_vars

\* an item whose quantity was updated after its product's price changed
C1_Witness ==
    \E i \in items :
        /\ i.price_at_addition # products[i.product].price
        /\ i.quantity >= 2
        /\ Cart_subtotal(items, i.cart) >= i.price_at_addition * i.quantity
        /\ \E k \in DOMAIN cartAudit : /\ cartAudit[k].action = "UPDATE"
                                      /\ cartAudit[k].product = i.product
        /\ \E k \in DOMAIN prodAudit : /\ prodAudit[k].action = "UPDATE"
                                      /\ prodAudit[k].product = i.product

\* C2: a successful AddToCartView or UpdateCartItemView request leaves the
\* item's quantity at or below the product's stock at that moment, and a
\* request whose resulting quantity would exceed the stock is rejected and
\* changes no item
C2_QuantityWithinStock ==
    \A u \in Users, p \in Products, q \in 0..(MaxStock + 1) :
        LET add == AddToCartView_post(u, p, q)
            upd == UpdateCartItemView_patch(u, p, q)
            held == IF HasItemIn(items, u, p)
                    THEN ItemIn(items, u, p).quantity ELSE 0
        IN /\ Success(add.status) =>
                /\ HasItemIn(add.items, u, p)
                /\ ItemIn(add.items, u, p).quantity <= products[p].stock
           /\ Success(upd.status) =>
                /\ HasItemIn(upd.items, u, p)
                /\ ItemIn(upd.items, u, p).quantity <= products[p].stock
           /\ held + q > products[p].stock =>
                ~Success(add.status) /\ add.items = items
           /\ q > products[p].stock =>
                ~Success(upd.status) /\ upd.items = items

\* an item that holds the whole stock of an available product, so that adding
\* one more is rejected while the current quantity is accepted
C2_Witness ==
    \E i \in items :
        /\ Authenticated(i.cart)
        /\ Product_is_available(products[i.product])
        /\ i.quantity >= 2
        /\ i.quantity = products[i.product].stock
        /\ AddToCartView_post(i.cart, i.product, 1).status = 400
        /\ UpdateCartItemView_patch(i.cart, i.product, i.quantity + 1).status
              = 400
        /\ UpdateCartItemView_patch(i.cart, i.product, i.quantity).status = 200

\* C9: a cart never holds two items for one product; a successful add of a
\* product already in the cart answers 200 and adds the requested quantity to
\* the existing row, a successful add of a product not in the cart answers 201
\* and creates one row with the requested quantity; no other row changes
C9_OneItemPerProduct ==
    /\ \A i, j \in items : i.cart = j.cart /\ i.product = j.product => i = j
    /\ \A u \in Users, p \in Products, q \in 0..(MaxStock + 1) :
          LET r == AddToCartView_post(u, p, q)
              old == {i \in items : i.cart = u /\ i.product = p}
              new == {i \in r.items : i.cart = u /\ i.product = p}
          IN Success(r.status) =>
                /\ Cardinality(new) = 1
                /\ r.items \ new = items \ old
                /\ IF old = {}
                   THEN r.status = 201 /\ \A i \in new : i.quantity = q
                   ELSE /\ r.status = 200
                        /\ \A i \in new, j \in old :
                              i.id = j.id /\ i.quantity = j.quantity + q

\* an item whose quantity grew by a second add: the post_save receiver logged
\* an UPDATE for it and UpdateCartItemView logged none
C9_Witness ==
    \E i \in items :
        /\ i.quantity >= 2
        /\ \E k \in DOMAIN cartAudit : /\ cartAudit[k].action = "UPDATE"
                                      /\ cartAudit[k].product = i.product
                                      /\ cartAudit[k].ip_address = NULL
        /\ \A k \in DOMAIN cartAudit : cartAudit[k].ip_address # IP

\* C10: UpdateCartItemView with quantity 0 on an item of the caller's cart
\* succeeds and leaves the item in the cart with quantity 0, whatever the
\* state of the product
C10_ZeroQuantityAccepted ==
    \A u \in Users, p \in Products :
        Authenticated(u) /\ u \in carts /\ HasItemIn(items, u, p) =>
            LET r == UpdateCartItemView_patch(u, p, 0)
            IN /\ Success(r.status)
               /\ HasItemIn(r.items, u, p)
               /\ ItemIn(r.items, u, p).quantity = 0

\* C7: once a seller is soft-deleted, each of the seller's products is
\* deactivated or soft-deleted, is absent from the public listing and cannot
\* be added to a cart
C7_SellerDeletionCascades ==
    \A s \in Users, p \in Products :
        users[s].is_deleted /\ products[p].exists /\ products[p].seller = s =>
            /\ ~products[p].is_active \/ products[p].is_deleted
            /\ \A u \in Users : p \notin get_queryset(u, "list")
            /\ \A u \in Users, q \in 1..MaxStock :
                  ~Success(AddToCartView_post(u, p, q).status)

\* C3: a user has at most one default address per address type, and a
\* created address that is the user's first of its type is stored as default
\* whatever is_default the request carries
C3_OneDefaultAddress ==
    /\ \A u \in Users, t \in AddressTypes :
          Cardinality({a \in addresses : /\ a.user = u
                                         /\ a.address_type = t
                                         /\ a.is_default}) <= 1
    /\ \A u \in Users, t \in AddressTypes, d \in BOOLEAN :
          LET r == AddressListCreateView_create(u, t, d)
          IN /\ Success(r.status)
             /\ ~\E a \in addresses : a.user = u /\ a.address_type = t
             => \E a \in r.addresses : /\ a.id = nextAddrId
                                       /\ a.user = u
                                       /\ a.address_type = t
                                       /\ a.is_default

\* a user with two addresses of one type whose default is the newer one, and
\* a first address that was created with is_default false
C3_Witness ==
    \E a, b \in addresses :
        /\ a.user = b.user /\ a.address_type = b.address_type
        /\ a.id < b.id
        /\ ~a.is_default /\ b.is_default
        /\ AddressListCreateView_create(
              a.user, CHOOSE t \in AddressTypes : t # a.address_type,
              FALSE).status = 201

\* C4: a product has at most one primary image, and saving an image with
\* is_primary true leaves it the only primary image of its product
C4_OnePrimaryImage ==
    /\ \A p \in Products :
          Cardinality({i \in images : i.product = p /\ i.is_primary}) <= 1
    /\ \A img \in images :
          LET after == ProductImage_save(images,
                                         [img EXCEPT !.is_primary = TRUE])
          IN \A i \in after :
                i.product = img.product /\ i.is_primary => i.id = img.id

\* a product with a primary image and another image that is not primary
C4_Witness ==
    \E i, j \in images :
        i.product = j.product /\ i.is_primary /\ ~j.is_primary

\* C8: LoginView answers 200 only for a user that exists, is not
\* soft-deleted, is active, has a verified e-mail and whose password is the one
\* given; a soft-deleted user stays soft-deleted and no login of that user
\* succeeds
C8_LoginConditions ==
    /\ [](\A u \in Users, pw \in Passwords :
            /\ LoginView_post(u, pw).status = 200 =>
                  /\ users[u].exists
                  /\ ~users[u].is_deleted
                  /\ users[u].is_active
                  /\ users[u].email_verified
                  /\ users[u].password = pw
            /\ users[u].is_deleted => LoginView_post(u, pw).status # 200)
    /\ [][\A u \in Users : users[u].is_deleted => users'[u].is_deleted]_vars

\* a user who logged in with a verified e-mail, was soft-deleted afterwards
\* and is now refused with the right password
C8_Witness ==
    \E u \in Users :
        /\ users[u].is_deleted /\ users[u].email_verified
        /\ \E k \in DOMAIN acctAudit : /\ acctAudit[k].user = u
                                      /\ acctAudit[k].event_type = "account_deleted"
        /\ LoginView_post(u, users[u].password).status = 400

\* C5: DeleteAccountView keeps the user row and sets is_deleted, clears
\* is_active and stamps deleted_at; destroy and bulk_delete of ProductViewSet
\* do the same to the product rows; no step removes a user row or a product
\* row, and a step that changes a user or a product keeps every review, cart
\* item and audit log row
C5_SoftDeleteKeepsRows ==
    /\ [](/\ \A u \in Users, pw \in Passwords :
               LET r == DeleteAccountView_post(u, pw)
               IN Success(r.status) =>
                     /\ r.users[u].exists
                     /\ r.users[u].is_deleted
                     /\ ~r.users[u].is_active
                     /\ r.users[u].deleted_at = NOW
                     /\ \A v \in Users \ {u} : r.users[v] = users[v]
          /\ \A u \in Users, p \in Products :
               LET r == ProductViewSet_destroy(u, p)
               IN Success(r.status) =>
                     /\ r.products[p].exists
                     /\ r.products[p].is_deleted
                     /\ ~r.products[p].is_active
                     /\ r.products[p].deleted_at = NOW
                     /\ \A x \in Products \ {p} : r.products[x] = products[x]
          /\ \A u \in Users, ids \in SUBSET Products :
               LET r == ProductViewSet_bulk_delete(u, ids)
               IN Success(r.status) =>
                     \A p \in Products :
                        /\ r.products[p].exists = products[p].exists
                        /\ p \in ids /\ products[p].seller = u
                              /\ ~products[p].is_deleted
                           => /\ r.products[p].is_deleted
                              /\ ~r.products[p].is_active
                              /\ r.products[p].deleted_at = NOW)
    /\ [][/\ \A u \in Users : users[u].exists => users'[u].exists
          /\ \A p \in Products : products[p].exists => products'[p].exists
          /\ users' # users \/ products' # products =>
                /\ reviews' = reviews
                /\ items' = items
                /\ carts' = carts
                /\ SubSeq(acctAudit', 1, Len(acctAudit)) = acctAudit
                /\ SubSeq(cartAudit', 1, Len(cartAudit)) = cartAudit
                /\ SubSeq(prodAudit', 1, Len(prodAudit)) = prodAudit]_vars

\* the seller and a product are soft-deleted while a review and a cart item
\* that reference the product are still stored
C5_Witness ==
    \E p \in Products :
        /\ products[p].exists /\ products[p].is_deleted
        /\ users[products[p].seller].exists
        /\ users[products[p].seller].is_deleted
        /\ \E r \in reviews : r.product = p
        /\ \E i \in items : i.product = p
        /\ \E k \in DOMAIN prodAudit : /\ prodAudit[k].product = p
                                      /\ prodAudit[k].action = "CREATE"

\* C6 as stated: no step modifies or removes a row of the account, cart or
\* product audit log
C6_AllLogsAppendOnly ==
    [][/\ Len(acctAudit') >= Len(acctAudit)
       /\ SubSeq(acctAudit', 1, Len(acctAudit)) = acctAudit
       /\ Len(cartAudit') >= Len(cartAudit)
       /\ SubSeq(cartAudit', 1, Len(cartAudit)) = cartAudit
       /\ Len(prodAudit') >= Len(prodAudit)
       /\ SubSeq(prodAudit', 1, Len(prodAudit)) = prodAudit]_vars

\* C6: the cart and product audit logs only grow at the end; the account
\* audit rows of a user only grow at the end too, except in a successful login
\* of that user, after which the user's rows are the KEEP_LAST newest of the
\* old rows followed by the login's new row
C6_LogsAppendOnlyButLoginPrunes ==
    [][/\ Len(cartAudit') >= Len(cartAudit)
       /\ SubSeq(cartAudit', 1, Len(cartAudit)) = cartAudit
       /\ Len(prodAudit') >= Len(prodAudit)
       /\ SubSeq(prodAudit', 1, Len(prodAudit)) = prodAudit
       /\ \A v \in Users \cup {NULL} :
             LET old == FilterUser(acctAudit, v)
                 new == FilterUser(acctAudit', v)
                 all == Append(old, new[Len(new)])
             IN \/ Len(new) >= Len(old) /\ SubSeq(new, 1, Len(old)) = old
                \/ /\ v \in Users
                   /\ \E pw \in Passwords :
                         /\ LoginView_post(v, pw).status = 200
                         /\ acctAudit' = LoginView_post(v, pw).acctAudit
                   /\ Len(new) = KEEP_LAST
                   /\ new[Len(new)].event_type = "login_success"
                   /\ \A k \in DOMAIN old : old[k].id < new[Len(new)].id
                   /\ new = SubSeq(all, Len(all) - KEEP_LAST + 1, Len(all))
      ]_vars

\* a login pruned the row of the user's registration, the user's oldest, and
\* a cart was cleared and a product soft-deleted
C6_Witness ==
    /\ \E u \in Users :
          /\ Len(FilterUser(acctAudit, u)) = KEEP_LAST
          /\ FilterUser(acctAudit, u)[1].event_type = "email_verified"
    /\ \E k \in DOMAIN cartAudit : cartAudit[k].action = "CLEAR"
    /\ \E k \in DOMAIN prodAudit : prodAudit[k].action = "DELETE"

\* C11: every cart item's quantity is between 0 and 99, also when the
\* product's stock is larger, and no AddToCartView request, repeated or not,
\* ends with an item above 99
C11_QuantityAtMost99 ==
    /\ \A i \in items : i.quantity >= 0 /\ i.quantity <= 99
    /\ \A u \in Users, p \in Products, q \in LimitQuantities :
          \A i \in AddToCartView_post(u, p, q).items : i.quantity <= 99

\* an item that repeated adds brought to 99 units of a product with more
\* stock, and to which one more unit cannot be added
C11_Witness ==
    \E i \in items :
        /\ i.quantity = 99
        /\ products[i.product].stock > 99
        /\ AddToCartView_post(i.cart, i.product, 1).status = 400
        /\ \E k \in DOMAIN cartAudit : /\ cartAudit[k].action = "UPDATE"
                                      /\ cartAudit[k].product = i.product
        /\ \A k \in DOMAIN cartAudit : cartAudit[k].ip_address = NULL

\* C12: ForgotPasswordView answers two requests that differ only in whether
\* the e-mail belongs to a non-deleted user with the same status and the same
\* body
C12_ForgotPasswordHidesAccounts ==
    \A a, b \in Users :
        /\ users[a].exists /\ ~users[a].is_deleted
        /\ ~(users[b].exists /\ ~users[b].is_deleted)
        => /\ ForgotPasswordView_post(a).status
                 = ForgotPasswordView_post(b).status
           /\ ForgotPasswordView_post(a).body = ForgotPasswordView_post(b).body

\* C13 as stated: a request of ProductViewSet update, partial_update,
\* destroy, bulk_delete, add_images or delete_image that names a product and
\* is made by a user other than the product's seller is rejected and leaves
\* the products, the images and the product audit log unchanged
C13_OtherUsersRejected ==
    \A u \in Users, p \in Products :
        products[p].exists /\ products[p].seller # u =>
            /\ \A price \in 0..MaxPrice, stock \in 0..MaxStock,
                  active \in BOOLEAN, n \in 0..MaxUpload :
                  LET r == ProductViewSet_update(u, p, price, stock, active, n)
                  IN /\ ~Success(r.status)
                     /\ r.products = products /\ r.images = images
                     /\ r.prodAudit = prodAudit
            /\ LET r == ProductViewSet_destroy(u, p)
               IN /\ ~Success(r.status)
                  /\ r.products = products /\ r.images = images
                  /\ r.prodAudit = prodAudit
            /\ \A n \in 0..MaxUpload :
                  LET r == ProductViewSet_add_images(u, p, n)
                  IN /\ ~Success(r.status)
                     /\ r.products = products /\ r.images = images
                     /\ r.prodAudit = prodAudit
            /\ \A id \in 0..MaxImageId :
                  LET r == ProductViewSet_delete_image(u, p, id)
                  IN /\ ~Success(r.status)
                     /\ r.products = products /\ r.images = images
                     /\ r.prodAudit = prodAudit
            /\ \A ids \in SUBSET Products :
                  p \in ids =>
                     LET r == ProductViewSet_bulk_delete(u, ids)
                     IN /\ ~Success(r.status)
                        /\ r.products = products /\ r.images = images
                        /\ r.prodAudit = prodAudit

\* C13: a request of ProductViewSet update, partial_update, destroy,
\* add_images or delete_image on a product by a user other than its seller is
\* rejected and changes no product, image or audit row; a bulk_delete request
\* that names the product and is made by another user leaves the product, its
\* images and the audit log unchanged, and is rejected unless it also names a
\* stored product of the requesting seller
C13_OnlySellerChangesProduct ==
    \A u \in Users, p \in Products :
        products[p].exists /\ products[p].seller # u =>
            /\ \A price \in 0..MaxPrice, stock \in 0..MaxStock,
                  active \in BOOLEAN, n \in 0..MaxUpload :
                  LET r == ProductViewSet_update(u, p, price, stock, active, n)
                  IN /\ ~Success(r.status)
                     /\ r.products = products /\ r.images = images
                     /\ r.prodAudit = prodAudit
            /\ LET r == ProductViewSet_destroy(u, p)
               IN /\ ~Success(r.status)
                  /\ r.products = products /\ r.images = images
                  /\ r.prodAudit = prodAudit
            /\ \A n \in 0..MaxUpload :
                  LET r == ProductViewSet_add_images(u, p, n)
                  IN /\ ~Success(r.status)
                     /\ r.products = products /\ r.images = images
                     /\ r.prodAudit = prodAudit
            /\ \A id \in 0..MaxImageId :
                  LET r == ProductViewSet_delete_image(u, p, id)
                  IN /\ ~Success(r.status)
                     /\ r.products = products /\ r.images = images
                     /\ r.prodAudit = prodAudit
            /\ \A ids \in SUBSET Products :
                  p \in ids =>
                     LET r == ProductViewSet_bulk_delete(u, ids)
                     IN /\ r.products[p] = products[p]
                        /\ r.images = images
                        /\ r.prodAudit = prodAudit
                        /\ Success(r.status) =>
                              \E x \in ids : /\ products[x].exists
                                             /\ products[x].seller = u
                                             /\ ~products[x].is_deleted
                                             /\ r.products[x].is_deleted

\* two sellers own one product each, one of the products has an image, and a
\* bulk_delete of both products by the other seller succeeds without touching
\* that product
C13_Witness ==
    \E p, x \in Products :
        /\ products[p].exists /\ products[x].exists
        /\ ~products[p].is_deleted /\ ~products[x].is_deleted
        /\ products[p].seller # products[x].seller
        /\ \E i \in images : i.product = p
        /\ ProductViewSet_bulk_delete(products[x].seller, {p, x}).status = 200
        /\ ProductViewSet_destroy(products[x].seller, p).status = 403

\* C14: the seller of a stored, non-deleted product can update it with valid
\* values whatever its is_active value
C14_SellerUpdatesInactiveProduct ==
    \A u \in Users, p \in Products :
        /\ Authenticated(u)
        /\ products[p].exists /\ ~products[p].is_deleted
        /\ products[p].seller = u
        => \A price \in 1..MaxPrice, stock \in 0..MaxStock, active \in BOOLEAN :
              Success(ProductViewSet_update(u, p, price, stock, active, 0).status)

\* C15: a soft-deleted product is in no answer of the list, retrieve and
\* my_products endpoints, cannot be added to a cart and stays soft-deleted;
\* an inactive product that is not deleted is in no answer of list and
\* retrieve, and in the my_products answer of its own seller only
C15_DeletedAndInactiveVisibility ==
    /\ [](\A p \in Products, u \in Users :
            /\ products[p].exists /\ products[p].is_deleted =>
                  /\ p \notin ProductViewSet_list(u).results
                  /\ ProductViewSet_retrieve(u, p).status = 404
                  /\ p \notin ProductViewSet_my_products(u).results
                  /\ \A q \in 0..(MaxStock + 1) :
                        /\ ~Success(AddToCartView_post(u, p, q).status)
                        /\ AddToCartView_post(u, p, q).items = items
            /\ products[p].exists /\ ~products[p].is_deleted
                  /\ ~products[p].is_active =>
                  /\ p \notin ProductViewSet_list(u).results
                  /\ ProductViewSet_retrieve(u, p).status = 404
                  /\ p \in ProductViewSet_my_products(u).results
                        => u = products[p].seller)
    /\ [][\A p \in Products :
             products[p].is_deleted => products'[p].is_deleted]_vars

\* one product is soft-deleted while a cart still holds it, and another is
\* inactive, not deleted and listed by my_products of its seller
C15_Witness ==
    \E p, x \in Products :
        /\ products[p].exists /\ products[p].is_deleted
        /\ \E i \in items : i.product = p
        /\ products[x].exists /\ ~products[x].is_deleted
        /\ ~products[x].is_active
        /\ x \in ProductViewSet_my_products(products[x].seller).results
        /\ Authenticated(products[x].seller)

C17_AtMostFiveAddresses ==
    \A u \in Users :
        /\ Cardinality(UserAddresses(u)) <= 5
        /\ Cardinality(UserAddresses(u)) = 5 =>
              \A t \in AddressTypes, d \in BOOLEAN :
                  LET r == AddressListCreateView_create(u, t, d)
                  IN /\ ~Success(r.status)
                     /\ r.addresses = addresses
                     /\ r.nextAddrId = nextAddrId
                     /\ r.profAudit = profAudit

\* a user who reached 5 addresses, deleted one and created a fifth again
C17_Witness ==
    \E u \in Users :
        /\ Authenticated(u)
        /\ Cardinality(UserAddresses(u)) = 5
        /\ \E n \in 1..(nextAddrId - 1) : \A a \in addresses : a.id # n
        /\ AddressListCreateView_create(u, "shipping", FALSE).status = 400

\* C18: every user has exactly one Profile and exactly one
\* NotificationPreference, and every user with is_seller = True has exactly
\* one SellerProfile, also when two sellers registered under the same first
\* and last name
C18_OneProfilePerUser ==
    \A u \in Users :
        users[u].exists =>
            /\ u \in profiles
            /\ u \in notificationPreferences
            /\ users[u].is_seller =>
                  Cardinality({sp \in sellerProfiles : sp.user = u}) = 1

\* C19: whatever review create and update requests were made, no two reviews
\* have the same user and the same product, and no review is written by the
\* seller of the product it reviews
C19_OneReviewNoneBySeller ==
    /\ \A r1 \in reviews, r2 \in reviews :
          r1.product = r2.product /\ r1.user = r2.user => r1 = r2
    /\ \A r \in reviews : products[r.product].seller # r.user

\* a user has reviewed both products of the other user: a further create
\* and an update that moves one review onto the other's product are refused
C19_Witness ==
    \E r1 \in reviews, r2 \in reviews :
        /\ r1.user = r2.user /\ Authenticated(r1.user)
        /\ r1.product # r2.product
        /\ ~Success(ProductReviewViewSet_create(r1.user, r1.product).status)
        /\ ProductReviewViewSet_update(r1.user, r1.id, r2.product).reviews
              = reviews
        /\ ProductReviewViewSet_update(r1.user, r1.id, r2.product).status
              = 500

\* C20: a request that soft-deletes a product leaves every cart and every
\* cart item as it was, quantity and price_at_addition included, and a cart
\* item of a soft-deleted product is reported unavailable: is_available is
\* false, stock_status is 'unavailable' and its cart's has_unavailable_items
\* is true
C20_SoftDeletedProductStaysInCarts ==
    /\ [](\A i \in items :
             products[i.product].is_deleted =>
                /\ ~CartItem_is_available(i)
                /\ CartItem_stock_status(i) = "unavailable"
                /\ Cart_has_unavailable_items(i.cart))
    /\ [][(\E p \in Products :
              ~products[p].is_deleted /\ products'[p].is_deleted)
          => /\ items' = items
             /\ carts' = carts]_vars

\* a soft-deleted product in a cart, with stock for the item's quantity and
\* the price of the time of addition
C20_Witness ==
    \E i \in items :
        /\ products[i.product].is_deleted
        /\ i.cart \in carts
        /\ i.quantity >= 1
        /\ products[i.product].stock >= i.quantity
        /\ i.price_at_addition = products[i.product].price
        /\ CartItem_stock_status(i) = "unavailable"

\* C21: when AddToCartView.post requests are interleaved statement by
\* statement, a cart never holds two items of one product, a request that
\* ends with success has added exactly its quantity to the quantity stored
\* when it ends (nothing written by another request is lost), the result
\* exceeds neither 99 nor the product's stock, and a request that ends without
\* success or has not ended leaves the items as they were
C21_LockSerialisesAdds ==
    /\ [](\A i \in items, j \in items :
             i.cart = j.cart /\ i.product = j.product => i = j)
    /\ [][\A r \in Requests :
            LET u == adding'[r].user
                p == adding'[r].product
                before == {i \in items : i.cart = u /\ i.product = p}
                after == {i \in items' : i.cart = u /\ i.product = p}
                old == IF before = {} THEN 0
                       ELSE (CHOOSE i \in before : TRUE).quantity
            IN adding'[r] # adding[r] =>
                 IF adding'[r].pc = "done" /\ Success(adding'[r].status)
                 THEN /\ \E i \in after :
                           /\ i.quantity = old + adding'[r].quantity
                           /\ i.quantity <= 99
                           /\ i.quantity <= products[p].stock
                      /\ \A i \in items' \ after : i \in items
                      /\ \A i \in items \ before : i \in items'
                 ELSE items' = items]_vars

\* two requests of one user for one product are in flight: one has read the
\* cart item under the lock on the product, the other waits for that lock
C21_Witness ==
    \E r1 \in Requests, r2 \in Requests :
        /\ r1 # r2
        /\ adding[r1].user = adding[r2].user
        /\ adding[r1].product = adding[r2].product
        /\ adding[r1].pc = "item"
        /\ adding[r1].cart_item \in items
        /\ adding[r2].pc = "cart"
        /\ ~select_for_update("product", adding[r2].product, r2)

\* C22: also when requests that make an address the default are interleaved
\* statement by statement, no user has two default addresses of one type
C22_OneDefaultWhenInterleaved ==
    \A a \in addresses, b \in addresses :
        /\ a.user = b.user
        /\ a.address_type = b.address_type
        /\ a.is_default /\ b.is_default
        => a.id = b.id

====
